---- MODULE Spec2Model ----
(***************************************************************************)
(* Verification model of the hn-staff portal's booking logic:              *)
(*   - the client-side rate limiter  (services/api_list_recent_bookings.py)*)
(*   - the window filter and de-duplication (ui/recent_bookings.py)        *)
(*   - the booking source attribution (models/booking.py)                  *)
(* Each component has its own specification (SpecRL, SpecFD, SpecAttr);    *)
(* the variables of the other components stay at their initial value.     *)
(***************************************************************************)
EXTENDS Integers, Sequences, FiniteSets, TLC

VARIABLES
    \* ---- rate limiter (module globals and per-thread locals) ----
    now,                  \* time.time(), in tenths of a second
    _api_call_times,      \* the module-global list of call timestamps
    _api_call_lock,       \* owner of the threading.Lock, NoThread when free
    pc,                   \* per thread: position in call_recent_bookings_api
    calls_in_last_minute, \* per thread: the local of _smart_rate_limit
    wake_at,              \* per thread: end of the pending time.sleep
    current_time,         \* per thread: the local of _smart_rate_limit
    oldest_call,          \* per thread: the local of the hard-limit branch
    jitter,               \* number of unscheduled delays so far
    \* ---- window filter / de-duplication ----
    fd,
    \* ---- booking attribution ----
    bk,
    \* ---- booking summarizer ----
    sm,
    \* ---- listBooking client (call_api) ----
    lb,
    \* ---- date-range fetch ----
    dr,
    \* ---- created-date window filters ----
    wf,
    \* ---- paginated bookings client ----
    pg,
    \* ---- recent-bookings fetch and its session state ----
    fs,
    \* ---- recent-bookings section: filter selection and reload ----
    ui,
    \* ---- Booking Viewer: recent searches ----
    rs

vars == <<now, _api_call_times, _api_call_lock, pc, calls_in_last_minute,
          wake_at, current_time, oldest_call, jitter, fd, bk, sm, lb, dr, wf, pg, fs, ui, rs>>

rlVars == <<now, _api_call_times, _api_call_lock, pc, calls_in_last_minute,
            wake_at, current_time, oldest_call, jitter>>

(***************************************************************************)
(* Bounds of the model                                                     *)
(***************************************************************************)
NumThreads == 2      \* threads that call call_recent_bookings_api
MaxTime    == 650    \* no new invocation starts after this time (tenths of s)
MaxJitter  == 1      \* unscheduled delays (idle time, oversleeping) per run

Threads  == 1..NumThreads
NoThread == 0
NoCall   == -1       \* oldest_call before line 44 has run

\* Delays the scheduler may add: between two statements, or on top of a sleep.
JitterSteps == {1, 600}

(***************************************************************************)
(* Rate limiter: services/api_list_recent_bookings.py                      *)
(* Time is counted in tenths of a second: every sleep of the code is a     *)
(* multiple of 0.1 s.                                                      *)
(***************************************************************************)
_max_calls_per_minute == 60
_rate_limit_threshold == 40
_safety_buffer        == 10
_hard_limit           == _max_calls_per_minute - _safety_buffer

WindowTicks == 600     \* 60.0 s, the trailing window of the prune
ExpireTicks == 610     \* 61.0 s, window plus the 1 second buffer

\* [t for t in _api_call_times if current_time - t < 60.0]
Prune(times, cur) ==
    SelectSeq(times, LAMBDA t : cur - t < WindowTicks)

\* min(_api_call_times)
Oldest(times) ==
    CHOOSE m \in {times[i] : i \in 1..Len(times)} :
        \A i \in 1..Len(times) : m <= times[i]

\* if calls_in_last_minute >= _hard_limit
HardLimitReached_gt(n) == n > _hard_limit
HardLimitReached(n) == n >= _hard_limit

\* time_until_expire = 61.0 - (cur - oldest_call)
TimeUntilExpire_short(times, cur) ==
    WindowTicks - 10 - (cur - Oldest(times))
TimeUntilExpire(times, cur) ==
    ExpireTicks - (cur - Oldest(times))

\* The progressive delay of lines 55-69, 0 when no branch sleeps.
SoftSleep(n) ==
    IF n >= 45 THEN 20 + (n - 45) * 5
    ELSE IF n >= _rate_limit_threshold THEN 10 + (n - _rate_limit_threshold) * 1
    ELSE IF n >= 30 THEN 5
    ELSE 0

\* Lines 54-69 for thread t that holds the lock and has counted n calls.
SoftDecision(t, n, cur) ==
    IF SoftSleep(n) > 0
    THEN /\ pc' = [pc EXCEPT ![t] = "soft_sleep"]
         /\ wake_at' = [wake_at EXCEPT ![t] = cur + SoftSleep(n)]
    ELSE /\ pc' = [pc EXCEPT ![t] = "record"]
         /\ UNCHANGED wake_at

\* threading.Lock.acquire succeeds
LockFree_always == TRUE
LockFree == _api_call_lock = NoThread

\* call_recent_bookings_api is invoked by thread t
Call(t) ==
    /\ pc[t] = "idle"
    /\ now < MaxTime
    /\ pc' = [pc EXCEPT ![t] = "acquire"]
    /\ UNCHANGED <<now, _api_call_times, _api_call_lock, calls_in_last_minute,
                   wake_at, current_time, oldest_call, jitter, fd, bk, sm, lb, dr, wf, pg, fs, ui, rs>>

\* _smart_rate_limit, lines 30-52 up to the first sleep: take the lock, prune,
\* count, and decide on the hard limit.
Enter(t) ==
    /\ pc[t] = "acquire"
    /\ LockFree
    /\ _api_call_lock' = t
    /\ LET pruned == Prune(_api_call_times, now)
           n      == Len(pruned)
       IN /\ _api_call_times' = pruned
          /\ calls_in_last_minute' = [calls_in_last_minute EXCEPT ![t] = n]
          /\ current_time' = [current_time EXCEPT ![t] = now]
          /\ oldest_call' = [oldest_call EXCEPT ![t] =
                                IF HardLimitReached(n) /\ Len(pruned) > 0
                                THEN Oldest(pruned) ELSE NoCall]
          /\ IF /\ HardLimitReached(n)
                /\ Len(pruned) > 0
                /\ TimeUntilExpire(pruned, now) > 0
             THEN /\ pc' = [pc EXCEPT ![t] = "hard_sleep"]
                  /\ wake_at' = [wake_at EXCEPT ![t] =
                                    now + TimeUntilExpire(pruned, now)]
             ELSE SoftDecision(t, n, now)
    /\ UNCHANGED <<now, jitter, fd, bk, sm, lb, dr, wf, pg, fs, ui, rs>>

\* time.sleep(time_until_expire) returns; lines 49-52 refresh the list, then
\* lines 54-69 choose the progressive delay.
HardWake(t) ==
    /\ pc[t] = "hard_sleep"
    /\ \E over \in {0} \cup (IF jitter < MaxJitter THEN JitterSteps ELSE {}) :
        LET cur    == (IF now > wake_at[t] THEN now ELSE wake_at[t]) + over
            pruned == Prune(_api_call_times, cur)
            n      == Len(pruned)
        IN /\ now' = cur
           /\ jitter' = IF over > 0 THEN jitter + 1 ELSE jitter
           /\ _api_call_times' = pruned
           /\ calls_in_last_minute' = [calls_in_last_minute EXCEPT ![t] = n]
           /\ current_time' = [current_time EXCEPT ![t] = cur]
           /\ SoftDecision(t, n, cur)
    /\ UNCHANGED <<_api_call_lock, oldest_call, fd, bk, sm, lb, dr, wf, pg, fs, ui, rs>>

\* the progressive time.sleep(sleep_time) returns
SoftWake(t) ==
    /\ pc[t] = "soft_sleep"
    /\ \E over \in {0} \cup (IF jitter < MaxJitter THEN JitterSteps ELSE {}) :
        /\ now' = (IF now > wake_at[t] THEN now ELSE wake_at[t]) + over
        /\ jitter' = IF over > 0 THEN jitter + 1 ELSE jitter
    /\ pc' = [pc EXCEPT ![t] = "record"]
    /\ UNCHANGED <<_api_call_times, _api_call_lock, calls_in_last_minute,
                   wake_at, current_time, oldest_call, fd, bk, sm, lb, dr, wf, pg, fs, ui, rs>>

\* The clock value of the invocation's first statement (line 31 or 50)
RecordedTime_at_entry(t) == current_time[t]
\* line 72: the argument of append is a fresh time.time()
RecordedTime(t) == now

\* line 30: the with-block releases the lock when thread t leaves it
LockAfterRelease_kept(t) == _api_call_lock
LockAfterRelease(t) ==
    IF _api_call_lock = t THEN NoThread ELSE _api_call_lock

\* line 72: _api_call_times.append(time.time()); the with-block ends.
Record(t) ==
    /\ pc[t] = "record"
    /\ _api_call_times' = Append(_api_call_times, RecordedTime(t))
    /\ _api_call_lock' = LockAfterRelease(t)
    /\ pc' = [pc EXCEPT ![t] = "stats"]
    \* the locals of the invocation go out of scope
    /\ calls_in_last_minute' = [calls_in_last_minute EXCEPT ![t] = 0]
    /\ wake_at' = [wake_at EXCEPT ![t] = 0]
    /\ current_time' = [current_time EXCEPT ![t] = 0]
    /\ oldest_call' = [oldest_call EXCEPT ![t] = NoCall]
    /\ UNCHANGED <<now, jitter, fd, bk, sm, lb, dr, wf, pg, fs, ui, rs>>

\* get_current_api_call_rate, called at line 117: takes the lock, reads the
\* list into a fresh local list and releases the lock; no global is written.
get_current_api_call_rate(t) ==
    /\ pc[t] = "stats"
    /\ LockFree
    /\ pc' = [pc EXCEPT ![t] = "idle"]
    /\ UNCHANGED <<now, _api_call_times, _api_call_lock, calls_in_last_minute,
                   wake_at, current_time, oldest_call, jitter, fd, bk, sm, lb, dr, wf, pg, fs, ui, rs>>

\* Time passes while no thread is inside time.sleep (between two statements,
\* or between two invocations).
Tick ==
    /\ jitter < MaxJitter
    /\ now < MaxTime
    /\ \A t \in Threads : pc[t] \notin {"hard_sleep", "soft_sleep"}
    /\ \E d \in JitterSteps : now' = now + d
    /\ jitter' = jitter + 1
    /\ UNCHANGED <<_api_call_times, _api_call_lock, pc, calls_in_last_minute,
                   wake_at, current_time, oldest_call, fd, bk, sm, lb, dr, wf, pg, fs, ui, rs>>

InitRL ==
    /\ now = 0
    /\ _api_call_times = <<>>
    /\ _api_call_lock = NoThread
    /\ pc = [t \in Threads |-> "idle"]
    /\ calls_in_last_minute = [t \in Threads |-> 0]
    /\ wake_at = [t \in Threads |-> 0]
    /\ current_time = [t \in Threads |-> 0]
    /\ oldest_call = [t \in Threads |-> NoCall]
    /\ jitter = 0

(***************************************************************************)
(* Window filter and de-duplication: ui/recent_bookings.py                 *)
(* Strings are sequences of one-character strings; instants are minutes    *)
(* since an epoch, dates are whole days since that epoch.                  *)
(***************************************************************************)
MaxLen  == 3     \* longest list of summaries
MaxDays == 2     \* largest window length N of _filter_created_last_n_days

MinutesPerDay == 24 * 60
JSTOffset     == 9 * 60      \* datetime.timedelta(hours=9)

\* Values of the raw createdDate field: absent or empty, a string that
\* pd.to_datetime rejects, or a timestamp with wall-clock reading t and either
\* no UTC offset (aware = FALSE) or the UTC offset off in minutes.
CreatedMissing == [kind |-> "missing", t |-> 0, aware |-> FALSE, off |-> 0]
CreatedInvalid == [kind |-> "invalid", t |-> 0, aware |-> FALSE, off |-> 0]
Timestamp(t, aware, off) == [kind |-> "ts", t |-> t, aware |-> aware, off |-> off]

\* parse_booking_summary, line 535: 'composite_key': f"{e_id}_{booking_id}"
composite_key_eid_only(e_id, booking_id) == e_id
composite_key(e_id, booking_id) == e_id \o <<"_">> \o booking_id

RawBookings ==
    LET
        \* ui/recent_bookings.py, lines 1003-1014
        CreatedDates ==
            { CreatedMissing, CreatedInvalid,
              \* 14:59 UTC of day 98 = 23:59 JST of day 98, no offset given
              Timestamp(98 * MinutesPerDay + 14 * 60 + 59, FALSE, 0),
              \* 14:59+0000 of day 99 = 23:59 JST of day 99
              Timestamp(99 * MinutesPerDay + 14 * 60 + 59, TRUE, 0),
              \* 15:00+0000 of day 99 = 00:00 JST of day 100
              Timestamp(99 * MinutesPerDay + 15 * 60, TRUE, 0),
              \* 20:00+0900 of day 99 = 11:00 UTC of day 99 = 20:00 JST of day 99
              Timestamp(99 * MinutesPerDay + 20 * 60, TRUE, JSTOffset) }
        \* (eId, bookingId) of the raw reservations: the upstream eId is a reservation
        \* number and the bookingId an alphanumeric id (neither holds an underscore);
        \* either may be absent.
        \* ui/recent_bookings.py, lines 357-358
        IdPairs ==
            { << <<>>, <<>> >>,
              << <<"7">>, <<>> >>,
              << <<"7">>, <<"a">> >> }
    IN
    { [eId |-> p[1], bookingId |-> p[2], createdDate |-> c] :
        p \in IdPairs, c \in CreatedDates }

\* get_parsed_bookings: [parse_booking_summary(b) for b in recent_bookings_data]
get_parsed_bookings(data) ==
    LET
        \* parse_booking_summary, the fields the filter and the de-duplication read:
        \* e_id, booking_id, composite_key and raw_data (its createdDate).
        \* ui/recent_bookings.py, lines 316-538
        parse_booking_summary(booking) ==
            [ e_id          |-> booking.eId,
              booking_id    |-> booking.bookingId,
              composite_key |-> composite_key(booking.eId, booking.bookingId),
              createdDate   |-> booking.createdDate ]
    IN
    [i \in 1..Len(data) |-> parse_booking_summary(data[i])]

\* created_dt.tz_convert('UTC').tz_localize(None) for an aware timestamp, the
\* timestamp itself for a naive one (lines 1011-1014)
created_dt_utc(c) == IF c.aware THEN c.t - c.off ELSE c.t

\* datetime.date(): the date of an instant
DateOf(m) == m \div MinutesPerDay

\* line 993: (now_jst - timedelta(days=days-1)).date()
cutoff_date_jst_days(utcnow, days) ==
    DateOf((utcnow + JSTOffset) - days * MinutesPerDay)
cutoff_date_jst(utcnow, days) ==
    DateOf((utcnow + JSTOffset) - (days - 1) * MinutesPerDay)

\* _filter_created_last_n_days, lines 989-1025
_filter_created_last_n_days(parsed_bookings, days, utcnow) ==
    SelectSeq(parsed_bookings, LAMBDA booking :
        LET created_date == booking.createdDate
        IN /\ created_date.kind # "missing"          \* if created_date:
           /\ created_date.kind = "ts"               \* pd.to_datetime succeeds
           /\ DateOf(created_dt_utc(created_date) + JSTOffset)
                 >= cutoff_date_jst(utcnow, days))

\* The de-duplication loop of lines 1366-1380 (and 1477-1491) from index i on,
\* with the keys seen so far and the list built so far.
RECURSIVE DedupeLoop(_, _, _, _)
DedupeLoop(bookings, i, seen, unique) ==
    IF i > Len(bookings) THEN unique
    ELSE LET booking == bookings[i]
             key == IF Len(booking.composite_key) > 0
                    THEN booking.composite_key
                    ELSE booking.e_id \o <<"_">> \o booking.booking_id
         IN IF Len(key) > 0 /\ key \notin seen
            THEN DedupeLoop(bookings, i + 1, seen \cup {key},
                            Append(unique, booking))
            ELSE IF Len(key) = 0
            THEN DedupeLoop(bookings, i + 1, seen, Append(unique, booking))
            ELSE DedupeLoop(bookings, i + 1, seen, unique)

\* The loop as it would run if it removed duplicates from the list it iterates
\* over: after a removal the iteration skips the element that follows.
RECURSIVE DedupeLoopSkipping(_, _, _, _)
DedupeLoopSkipping(bookings, i, seen, unique) ==
    IF i > Len(bookings) THEN unique
    ELSE LET booking == bookings[i]
             key == booking.composite_key
         IN IF key \notin seen
            THEN DedupeLoopSkipping(bookings, i + 1, seen \cup {key},
                                    Append(unique, booking))
            ELSE IF i + 1 <= Len(bookings)
            THEN DedupeLoopSkipping(bookings, i + 2, seen,
                                    Append(unique, bookings[i + 1]))
            ELSE unique

Dedupe_remove_while_iterating(bookings) ==
    DedupeLoopSkipping(bookings, 1, {}, <<>>)
Dedupe(bookings) == DedupeLoop(bookings, 1, {}, <<>>)

\* display_recent_bookings_section, lines 1330-1383 with the "N days" time
\* filter and the content, management and season filters at "All": filter the
\* parsed bookings by creation date, then remove duplicates.
filterAndDedupe(summaries, days, utcnow) ==
    Dedupe(_filter_created_last_n_days(summaries, days, utcnow))

RECURSIVE ListsUpTo(_)
ListsUpTo(n) ==
    IF n = 0 THEN {<<>>}
    ELSE LET shorter == ListsUpTo(n - 1)
         IN shorter \cup {Append(l, b) : l \in {x \in shorter : Len(x) = n - 1},
                                         b \in RawBookings}

InitFD ==
    LET
        \* datetime.datetime.utcnow() at the time of the call: 20:00 UTC of day 99
        \* (05:00 JST of day 100) and 01:00 UTC of day 100 (10:00 JST of day 100).
        \* ui/recent_bookings.py, line 992
        ReferenceTimes == {99 * MinutesPerDay + 20 * 60, 100 * MinutesPerDay + 60}
    IN
    \E data \in ListsUpTo(MaxLen), days \in 1..MaxDays, utcnow \in ReferenceTimes :
        fd = [ phase         |-> "loaded",
               parsed        |-> get_parsed_bookings(data),
               days          |-> days,
               utcnow        |-> utcnow,
               time_filtered |-> <<>>,
               unique        |-> <<>>,
               again         |-> <<>> ]

\* display_recent_bookings_section: time filter, then de-duplication; the
\* result is stored as filtered_bookings_data.
display_recent_bookings_section ==
    /\ fd.phase = "loaded"
    /\ fd' = [fd EXCEPT
                !.phase = "shown",
                !.time_filtered =
                    _filter_created_last_n_days(fd.parsed, fd.days, fd.utcnow),
                !.unique = filterAndDedupe(fd.parsed, fd.days, fd.utcnow)]
    /\ UNCHANGED rlVars
    /\ UNCHANGED <<bk, sm, lb, dr, wf, pg, fs, ui, rs>>

\* The filter-and-dedupe step applied to its own output, at the same
\* reference time.
filterAndDedupe_again ==
    /\ fd.phase = "shown"
    /\ fd' = [fd EXCEPT
                !.phase = "reshown",
                !.again = filterAndDedupe(fd.unique, fd.days, fd.utcnow)]
    /\ UNCHANGED rlVars
    /\ UNCHANGED <<bk, sm, lb, dr, wf, pg, fs, ui, rs>>

\* display_bookings_list, lines 1476-1493: de-duplication of the parsed
\* bookings without a time filter.
display_bookings_list ==
    /\ fd.phase = "loaded"
    /\ fd' = [fd EXCEPT
                !.phase = "listed",
                !.time_filtered = fd.parsed,
                !.unique = Dedupe(fd.parsed)]
    /\ UNCHANGED rlVars
    /\ UNCHANGED <<bk, sm, lb, dr, wf, pg, fs, ui, rs>>

NextFD ==
    \/ display_recent_bookings_section
    \/ filterAndDedupe_again
    \/ display_bookings_list

(***************************************************************************)
(* Booking source attribution: models/booking.py, Booking.attribute_booking *)
(* A Python str is a sequence of one-character strings.                    *)
(***************************************************************************)
MaxIdLen == 10    \* longest generated custom ID
MaxCalls == 2     \* invocations of attribute_booking on one Booking

UpperCaseLetters == <<"A", "B", "C", "D", "E", "F", "G", "H", "I", "J", "K", "L", "M", "N", "O", "P", "Q", "R", "S", "T", "U", "V", "W", "X", "Y", "Z">>
LowerCaseLetters == <<"a", "b", "c", "d", "e", "f", "g", "h", "i", "j", "k", "l", "m", "n", "o", "p", "q", "r", "s", "t", "u", "v", "w", "x", "y", "z">>

lower(str) ==
    LET
        \* str.lower() on one character and on a string
        \* models/booking.py, lines 301-321
        LowerChar(c) ==
            IF \E i \in 1..Len(UpperCaseLetters) : UpperCaseLetters[i] = c
            THEN LowerCaseLetters[CHOOSE i \in 1..Len(UpperCaseLetters) :
                                      UpperCaseLetters[i] = c]
            ELSE c
    IN
    [i \in 1..Len(str) |-> LowerChar(str[i])]

\* sub in str
Contains(sub, str) ==
    \E i \in 0..(Len(str) - Len(sub)) : SubSeq(str, i + 1, i + Len(sub)) = sub

\* str[:n]
Prefix(str, n) == SubSeq(str, 1, IF Len(str) < n THEN Len(str) ELSE n)

\* The string literals of attribute_booking
STR_Unknown     == <<"U", "n", "k", "n", "o", "w", "n">>
STR_OTA         == <<"O", "T", "A">>
STR_BookAndPay  == <<"B", "o", "o", "k", " ", "&", " ", "P", "a", "y">>
STR_HNStaff     == <<"H", "N", " ", "S", "t", "a", "f", "f">>
STR_Airbnb      == <<"A", "i", "r", "b", "n", "b">>
STR_BookingCom  == <<"B", "o", "o", "k", "i", "n", "g", ".", "c", "o", "m">>
STR_Expedia     == <<"E", "x", "p", "e", "d", "i", "a">>
STR_Jalan       == <<"J", "a", "l", "a", "n">>
STR_roomboss_channel_manager ==
    <<"r", "o", "o", "m", "b", "o", "s", "s", " ", "c", "h", "a", "n", "n", "e", "l", " ", "m", "a", "n", "a", "g", "e", "r">>
StaffCodes ==
    { <<"d">>, <<"r", "y", "o">>, <<"a", "s">>, <<"j">>, <<"j", "j">>, <<"a", "s", "h">>, <<"t">>, <<"t", "o", "m">>, <<"p">>, <<"l", "i">> }
OTAChannels == {STR_Airbnb, STR_BookingCom, STR_Expedia, STR_Jalan}

\* Attribute values that are not strings: Python None, an attribute that was
\* never set, and the {} default of booking.get("bookingSource", {}).
None      == <<"None">>
Unset     == <<"unset">>
EmptyDict == <<"dict">>

\* str(x) if x is not None else "" (lines 290 and 295); str({}) is "{}"
StrOrEmpty(x) ==
    IF x = None \/ x = Unset THEN <<>>
    ELSE IF x = EmptyDict THEN <<"{", "}">>
    ELSE x

\* Line 298, "if custom_id:", and the else branch of lines 325-328
IsEmptyId_never(custom_id) == FALSE
IsEmptyId(custom_id) == Len(custom_id) = 0

\* Lines 300-301: the Airbnb rule
IsAirbnb_no_prefix_check(custom_id, booking_source) ==
    /\ Len(custom_id) = 10
    /\ Len(booking_source) > 0
    /\ Contains(STR_roomboss_channel_manager, lower(booking_source))
IsAirbnb(custom_id, booking_source) ==
    /\ custom_id[1] = "H"
    /\ Len(custom_id) = 10
    /\ Len(booking_source) > 0
    /\ Contains(STR_roomboss_channel_manager, lower(booking_source))

\* Line 305: the Booking.com rule
IsBookingCom(custom_id) == Len(custom_id) = 10 /\ custom_id[1] # "H"

\* Lines 309-312: the Expedia rule
IsExpedia(custom_id) ==
    \/ (Len(custom_id) = 8 /\ custom_id[1] = "4")
    \/ (Len(custom_id) = 9 /\ custom_id[1] = "3")
    \/ (Len(custom_id) = 8 /\ custom_id[1] = "7")
    \/ (Len(custom_id) = 9 /\ custom_id[1] = "2")

\* Lines 316-317: the Jalan rule
IsJalan(custom_id) ==
    \/ (Len(custom_id) = 8 /\ custom_id[1] = "0")
    \/ Prefix(custom_id, 2) = <<"6", "X">>
    \/ Prefix(custom_id, 2) = <<"6", "J">>

\* Line 321: the staff rule
IsStaff_case_sensitive(custom_id) == custom_id \in StaffCodes
IsStaff(custom_id) == lower(custom_id) \in StaffCodes

\* Lines 331-332: Channel1 is set from Channel2 for the OTAs
OTAOverride_none(source_1, source_2) == source_1
OTAOverride(source_1, source_2) ==
    IF source_2 \in OTAChannels THEN STR_OTA ELSE source_1

\* Lines 283-284: both attributes are reset before the rules are tried, and
\* no rule's else branch touches them again.
DefaultSource_book_and_pay == <<STR_BookAndPay, STR_BookAndPay>>
DefaultSource == <<STR_Unknown, STR_Unknown>>

\* The rule chain with the Jalan test ahead of the Booking.com test
attribute_booking_result_jalan_first(custom_id_attr, booking_source_attr) ==
    LET custom_id      == StrOrEmpty(custom_id_attr)
        booking_source == StrOrEmpty(booking_source_attr)
        before ==
            IF ~IsEmptyId(custom_id)
            THEN IF IsAirbnb(custom_id, booking_source)
                    THEN <<STR_Unknown, STR_Airbnb>>
                 ELSE IF IsExpedia(custom_id)
                    THEN <<STR_Unknown, STR_Expedia>>
                 ELSE IF IsJalan(custom_id)
                    THEN <<STR_Unknown, STR_Jalan>>
                 ELSE IF IsBookingCom(custom_id)
                    THEN <<STR_Unknown, STR_BookingCom>>
                 ELSE IF IsStaff(custom_id)
                    THEN <<STR_HNStaff, custom_id>>
                 ELSE DefaultSource
            ELSE <<STR_BookAndPay, STR_BookAndPay>>
    IN <<OTAOverride(before[1], before[2]), before[2]>>

\* attribute_booking, lines 277-334: the pair it stores in booking_source_1
\* and booking_source_2 and returns, for the attribute values it finds.
attribute_booking_result(custom_id_attr, booking_source_attr) ==
    LET custom_id      == StrOrEmpty(custom_id_attr)
        booking_source == StrOrEmpty(booking_source_attr)
        \* lines 283-328: the values before the OTA override
        before ==
            IF ~IsEmptyId(custom_id)
            THEN IF IsAirbnb(custom_id, booking_source)
                    THEN <<STR_Unknown, STR_Airbnb>>
                 ELSE IF IsBookingCom(custom_id)
                    THEN <<STR_Unknown, STR_BookingCom>>
                 ELSE IF IsExpedia(custom_id)
                    THEN <<STR_Unknown, STR_Expedia>>
                 ELSE IF IsJalan(custom_id)
                    THEN <<STR_Unknown, STR_Jalan>>
                 ELSE IF IsStaff(custom_id)
                    THEN <<STR_HNStaff, custom_id>>
                 ELSE DefaultSource
            ELSE <<STR_BookAndPay, STR_BookAndPay>>
    IN <<OTAOverride(before[1], before[2]), before[2]>>

\* p followed by fill characters up to length n
RECURSIVE Padded(_, _)
Padded(p, n) == IF Len(p) >= n THEN p ELSE Padded(Append(p, "5"), n)

InitAttr ==
    LET
        \* Values of the custom_id attribute after construction: "" (line 38), None
        \* (customId absent, line 147), staff codes in any casing, IDs of every shape
        \* the rules look at, and near misses.
        CustomIds ==
            LET
                \* The spellings of a lower-case code in every mix of upper and lower case
                \* models/booking.py, line 321
                CaseVariants(code) ==
                    {v \in [1..Len(code) -> {LowerCaseLetters[i] : i \in 1..26}
                                              \cup {UpperCaseLetters[i] : i \in 1..26}] :
                        lower(v) = code}
                \* models/booking.py, lines 300-317
                IdPrefixes ==
                    { <<"H">>, <<"h">>, <<"4">>, <<"3">>, <<"7">>, <<"2">>, <<"0">>, <<"9">>,
                      <<"6", "X">>, <<"6", "J">>, <<"6", "x">>, <<"d">> }
            IN
            {<<>>, None}
            \cup UNION {CaseVariants(code) : code \in StaffCodes}
            \cup {Padded(p, n) : p \in IdPrefixes, n \in 1..MaxIdLen}
            \cup { <<"d", "d">>, <<" ", "d">>, <<"J", "a", "l", "a", "n">> }
        \* Values of the booking_source attribute after construction
        \* models/booking.py, line 145
        BookingSources ==
            { Unset, None, EmptyDict, <<>>,
              <<"R", "o", "o", "m", "B", "o", "s", "s", " ", "C", "h", "a", "n", "n", "e", "l", " ", "M", "a", "n", "a", "g", "e", "r", " ", "-", " ", "A", "i", "r", "b", "n", "b">>,
              <<"R", "O", "O", "M", "B", "O", "S", "S", " ", "C", "H", "A", "N", "N", "E", "L", " ", "M", "A", "N", "A", "G", "E", "R">>,
              <<"R", "o", "o", "m", "B", "o", "s", "s", " ", "C", "h", "a", "n", "n", "e", "l">>,
              <<"B", "o", "o", "k", "i", "n", "g", ".", "c", "o", "m">> }
    IN
    \E c \in CustomIds, b \in BookingSources :
        bk = [ phase            |-> "parsed",
               custom_id        |-> c,
               booking_source   |-> b,
               booking_source_1 |-> Unset,
               booking_source_2 |-> Unset,
               returned         |-> <<>>,
               first            |-> <<>>,
               raised           |-> FALSE,
               calls            |-> 0,
               summary_source   |-> Unset ]

\* Booking.attribute_booking(): line 91 at the end of construction, and any
\* later invocation on the same object.
attribute_booking ==
    LET
        \* custom_id[0] is evaluated on an empty string (IndexError): only when the
        \* guard of line 298 lets an empty custom_id through.
        attribute_booking_raises(custom_id_attr) ==
            ~IsEmptyId(StrOrEmpty(custom_id_attr)) /\ Len(StrOrEmpty(custom_id_attr)) = 0
    IN
    /\ bk.phase \in {"parsed", "attributed"}
    /\ bk.calls < MaxCalls
    /\ ~bk.raised
    /\ IF attribute_booking_raises(bk.custom_id)
       THEN bk' = [bk EXCEPT !.raised = TRUE,
                             !.calls = @ + 1,
                             !.booking_source_1 = STR_Unknown,
                             !.booking_source_2 = STR_Unknown]
       ELSE LET result == attribute_booking_result(bk.custom_id,
                                                   bk.booking_source)
            IN bk' = [bk EXCEPT
                        !.phase = "attributed",
                        !.calls = @ + 1,
                        \* line 288 never runs: __init__ sets custom_id
                        !.booking_source_1 = result[1],
                        !.booking_source_2 = result[2],
                        !.returned = result,
                        !.first = IF bk.calls = 0 THEN result ELSE @]
    /\ UNCHANGED rlVars
    /\ UNCHANGED <<fd, sm, lb, dr, wf, pg, fs, ui, rs>>

\* Python truth value of a raw field: None, a missing key's '' default, {} and
\* "" are false
Truthy(x) == x # None /\ x # Unset /\ x # EmptyDict /\ Len(x) > 0

\* recent_bookings.py lines 583-619: the label the summarizer records
_determine_booking_source(custom_id_raw, booking_source) ==
    LET
        \* recent_bookings.py line 599: the Booking.com test of the summarizer
        SummaryIsBookingCom(custom_id, booking_source_str) ==
            \/ (Len(custom_id) = 10 /\ custom_id[1] # "H")
            \/ Contains(<<"b", "o", "o", "k", "i", "n", "g", ".", "c", "o", "m">>,
                        lower(booking_source_str))
    IN
    IF ~Truthy(custom_id_raw) THEN STR_BookAndPay
    ELSE LET custom_id == custom_id_raw
             booking_source_str ==
                 IF Truthy(booking_source) THEN booking_source ELSE <<>>
         IN IF /\ custom_id[1] = "H"
               /\ Len(custom_id) = 10
               /\ Contains(STR_roomboss_channel_manager, lower(booking_source_str))
               THEN STR_Airbnb
            ELSE IF SummaryIsBookingCom(custom_id, booking_source_str)
               THEN STR_BookingCom
            ELSE IF \/ (Len(custom_id) = 8 /\ custom_id[1] = "4")
                    \/ (Len(custom_id) = 9 /\ custom_id[1] = "3")
                    \/ (Len(custom_id) = 8 /\ custom_id[1] = "7")
                    \/ (Len(custom_id) = 9 /\ custom_id[1] = "2")
               THEN STR_Expedia
            ELSE IF \/ (Len(custom_id) = 8 /\ custom_id[1] = "0")
                    \/ Prefix(custom_id, 2) = <<"6", "X">>
                    \/ Prefix(custom_id, 2) = <<"6", "J">>
               THEN STR_Jalan
            ELSE IF lower(custom_id) \in StaffCodes
               THEN <<"S", "t", "a", "f", "f", " ", "(">> \o custom_id \o <<")">>
            ELSE STR_BookAndPay

\* parse_booking_summary, lines 381-384: the summarizer classifies the same
\* reservation from its raw customId and bookingSource.
summarize_booking_source ==
    /\ bk.phase \in {"parsed", "attributed"}
    /\ bk.summary_source = Unset
    /\ bk' = [bk EXCEPT !.summary_source =
                 _determine_booking_source(bk.custom_id, bk.booking_source)]
    /\ UNCHANGED rlVars
    /\ UNCHANGED <<fd, sm, lb, dr, wf, pg, fs, ui, rs>>

NextAttr ==
    \/ attribute_booking
    \/ summarize_booking_source

(***************************************************************************)
(* Booking summarizer: ui/recent_bookings.py, parse_booking_summary        *)
(* A raw reservation is given by its booking type, the number of its       *)
(* items, the dates of its first item (days counted from 2026-01-01) and,  *)
(* for each optional field, whether the field holds a well-formed value    *)
(* ("ok"), is absent from the dict ("absent"), holds JSON null ("null")    *)
(* or, for a date, holds a string that pd.to_datetime rejects ("bad").     *)
(* Defects of item fields sit in the first item.                           *)
(***************************************************************************)
MaxItems   == 2      \* items of a reservation
MaxDay     == 4      \* latest day of a check-in, check-out, start or end
MaxDefects == 1      \* fields of one reservation that are not well-formed

SumFields ==
    {"invoicePayments", "leadGuest", "hotel", "serviceProvider", "items",
     "service", "priceSell", "checkIn", "checkOut", "startDate", "endDate",
     "createdDate", "active"}

RECURSIVE DefectSets(_)
DefectSets(k) ==
    LET
        \* ui/recent_bookings.py, lines 328-496
        Defects ==
            LET
                \* ui/recent_bookings.py, lines 425-470
                DateFields ==
                    {"checkIn", "checkOut", "startDate", "endDate",
                     "createdDate"}
            IN
            {<<f, v>> : f \in SumFields, v \in {"absent", "null"}}
            \cup {<<f, "bad">> : f \in DateFields}
    IN
    IF k = 0 THEN {{}}
    ELSE LET S == DefectSets(k - 1)
         IN S \cup {D \cup {d} : D \in S, d \in Defects}

FieldStates(D) ==
    [f \in SumFields |->
        IF \E d \in D : d[1] = f
        THEN (CHOOSE d \in D : d[1] = f)[2]
        ELSE "ok"]

\* "if items:" (lines 376 and 442): a non-empty list
ItemsTruthy(raw) == raw.st["items"] = "ok" /\ raw.n_items > 0

\* "if checkin_date and checkout_date:" and the like: a non-empty string,
\* parseable or not
DateTruthy(raw, f) == raw.st[f] \in {"ok", "bad"}

\* The value dict.get(f, '') yields for a date field
RawDate(raw, f, day) ==
    CASE raw.st[f] = "ok"     -> [kind |-> "date", day |-> day]
      [] raw.st[f] = "bad"    -> [kind |-> "unparseable"]
      [] raw.st[f] = "absent" -> [kind |-> "empty"]
      [] raw.st[f] = "null"   -> [kind |-> "none"]

\* pd.to_datetime of a date string: midnight of that day, in minutes
to_datetime(day) == day * MinutesPerDay

\* Timedelta.days: whole days, rounded down
TimedeltaDays(delta) == delta \div MinutesPerDay

\* priceSell of the i-th item
ItemPrice(i) == i * 100

\* Lines 443-446: the loop over the items
RECURSIVE SumPriceSell(_, _)
SumPriceSell(raw, n) ==
    LET
        \* item.get('priceSell', 0) for the i-th item (line 445); null is not
        \* a number
        PriceSell(i) ==
            IF i = 1 /\ raw.st["priceSell"] = "absent" THEN 0 ELSE ItemPrice(i)
    IN
    IF n = 0 THEN 0 ELSE SumPriceSell(raw, n - 1) + PriceSell(n)

\* Lines 439-446
sell_price(raw) ==
    IF ItemsTruthy(raw) THEN SumPriceSell(raw, raw.n_items) ELSE 0

\* Line 437: the value nights keeps when no branch assigns it
nights_initial == 0

\* The SERVICE default of line 492 applied outside "if items:"
nights_without_items_service_default(booking_type) ==
    IF booking_type = "SERVICE" THEN 1 ELSE nights_initial
\* Lines 441-442: with no items, nothing assigns nights
nights_without_items(booking_type) == nights_initial

\* Line 461 with the result kept at or above zero
AccommodationNights_clamped(checkin_dt, checkout_dt) ==
    IF checkout_dt < checkin_dt THEN 0
    ELSE TimedeltaDays(checkout_dt - checkin_dt)
\* Line 461: nights = (checkout_dt - checkin_dt).days
AccommodationNights(checkin_dt, checkout_dt) ==
    TimedeltaDays(checkout_dt - checkin_dt)

\* Lines 437-492
nights(raw) ==
    LET
        \* Lines 484-488: the nights of a SERVICE item with two parseable dates
        ServiceNights(start_dt, end_dt) ==
            IF TimedeltaDays(end_dt - start_dt) = 0 THEN 1
            ELSE TimedeltaDays(end_dt - start_dt)
    IN
    IF ~ItemsTruthy(raw) THEN nights_without_items(raw.bookingType)
    ELSE IF raw.bookingType = "ACCOMMODATION"
    THEN IF DateTruthy(raw, "checkIn") /\ DateTruthy(raw, "checkOut")
         THEN IF raw.st["checkIn"] = "ok" /\ raw.st["checkOut"] = "ok"
              THEN AccommodationNights(to_datetime(raw.first),
                                       to_datetime(raw.last))
              ELSE 0
         ELSE nights_initial
    ELSE IF raw.bookingType = "SERVICE"
    THEN IF DateTruthy(raw, "startDate") /\ DateTruthy(raw, "endDate")
         THEN IF raw.st["startDate"] = "ok" /\ raw.st["endDate"] = "ok"
              THEN ServiceNights(to_datetime(raw.first), to_datetime(raw.last))
              ELSE 1
         ELSE 1
    ELSE nights_initial

\* Lines 495-496: booking.get('active', True); null is false
status(raw) ==
    IF raw.st["active"] = "null" THEN "Cancelled" ELSE "Active"

\* The statements of parse_booking_summary that raise on a null value:
\* line 341 (iterating None), lines 367 and 370 (None.get), line 379
\* (None.get on the first item's service), line 446 (adding None), and
\* lines 748-749 of _is_holiday_niseko_managed (None.get on hotel).
parse_booking_summary_raises(raw) ==
    \/ raw.st["invoicePayments"] = "null"
    \/ raw.bookingType = "ACCOMMODATION" /\ raw.st["hotel"] = "null"
    \/ raw.bookingType = "SERVICE" /\ raw.st["serviceProvider"] = "null"
    \/ /\ raw.bookingType = "SERVICE"
       /\ ItemsTruthy(raw)
       /\ raw.st["service"] = "null"
    \/ ItemsTruthy(raw) /\ raw.st["priceSell"] = "null"
    \/ raw.st["hotel"] = "null"

\* Lines 510-538: the returned dict
booking_summary(raw) ==
    LET
        \* Lines 435-479: the formatted check-in or start date; the string itself
        \* when it does not parse, or when the other date of the pair does not
        checkin_formatted ==
            IF ~ItemsTruthy(raw) THEN [kind |-> "empty"]
            ELSE IF raw.bookingType = "ACCOMMODATION"
            THEN IF DateTruthy(raw, "checkIn") /\ DateTruthy(raw, "checkOut")
                 THEN IF raw.st["checkIn"] = "ok" /\ raw.st["checkOut"] = "ok"
                      THEN [kind |-> "formatted", day |-> raw.first]
                      ELSE RawDate(raw, "checkIn", raw.first)
                 ELSE [kind |-> "empty"]
            ELSE IF raw.bookingType = "SERVICE"
            THEN IF DateTruthy(raw, "startDate")
                 THEN IF raw.st["startDate"] = "ok"
                      THEN [kind |-> "formatted", day |-> raw.first]
                      ELSE RawDate(raw, "startDate", raw.first)
                 ELSE [kind |-> "empty"]
            ELSE [kind |-> "empty"]
        \* Lines 424-432: createdDate shifted by nine hours and formatted, or the
        \* string itself when it does not parse
        created_formatted ==
            IF raw.st["createdDate"] = "ok"
            THEN [kind |-> "formatted", t |-> to_datetime(raw.first) + JSTOffset]
            ELSE IF raw.st["createdDate"] = "bad" THEN [kind |-> "unparseable"]
            ELSE [kind |-> "empty"]
        \* Lines 338-349: the invoice list holds one invoice of 100 whose
        \* paymentAmount is null
        total_invoiced ==
            IF raw.st["invoicePayments"] = "ok" THEN 100 ELSE 0
    IN
    [ booking_type        |-> raw.bookingType,
      created_date        |-> created_formatted,
      checkin_date        |-> checkin_formatted,
      nights              |-> nights(raw),
      sell_price_raw      |-> sell_price(raw),
      status              |-> status(raw),
      amount_invoiced_raw |-> total_invoiced ]

NoSummary == [kind |-> "none"]

InitSum ==
    LET
        \* ui/recent_bookings.py, lines 316-325
        RawReservations ==
            LET
                \* ui/recent_bookings.py, lines 364-369
                BookingTypes == {"ACCOMMODATION", "SERVICE", ""}
            IN
            {[bookingType |-> b, n_items |-> n, first |-> i, last |-> o,
              st |-> FieldStates(D)] :
                b \in BookingTypes, n \in 0..MaxItems, i \in {0, MaxDay},
                o \in 0..MaxDay, D \in DefectSets(MaxDefects)}
    IN
    \E raw \in RawReservations :
        sm = [ phase   |-> "raw",
               raw     |-> raw,
               raised  |-> FALSE,
               summary |-> NoSummary,
               parsed  |-> <<>> ]

\* parse_booking_summary(booking_data), lines 316-538
summarize_one ==
    /\ sm.phase = "raw"
    /\ sm' = [sm EXCEPT
                !.phase = "summarized",
                !.raised = parse_booking_summary_raises(sm.raw),
                !.summary = IF parse_booking_summary_raises(sm.raw)
                            THEN NoSummary
                            ELSE booking_summary(sm.raw)]
    /\ UNCHANGED rlVars
    /\ UNCHANGED <<fd, bk, lb, dr, wf, pg, fs, ui, rs>>

\* get_parsed_bookings, line 311: the list comprehension over the fetched
\* reservations, here the reservation and a clean one after it; an exception
\* of one element leaves the comprehension.
summarize_batch ==
    LET
        \* A reservation with every field well-formed
        \* ui/recent_bookings.py, lines 316-325
        CleanReservation ==
            [bookingType |-> "ACCOMMODATION", n_items |-> 1, first |-> 0, last |-> 1,
             st |-> FieldStates({})]
    IN
    /\ sm.phase = "raw"
    /\ LET data == <<sm.raw, CleanReservation>>
           raised == \E i \in 1..Len(data) : parse_booking_summary_raises(data[i])
       IN sm' = [sm EXCEPT
                   !.phase = "batched",
                   !.raised = raised,
                   !.parsed = IF raised THEN <<>>
                              ELSE [i \in 1..Len(data) |-> booking_summary(data[i])]]
    /\ UNCHANGED rlVars
    /\ UNCHANGED <<fd, bk, lb, dr, wf, pg, fs, ui, rs>>

NextSum ==
    \/ summarize_one
    \/ summarize_batch

(***************************************************************************)
(* listBooking client: services/api_list_booking.py                        *)
(* call_api is wrapped by limits(calls = 15, period = 120) of the          *)
(* ratelimit package, used without sleep_and_retry.  The decorator counts  *)
(* the calls of the current period; it starts a new period when the old    *)
(* one has run out, and a call beyond the allowance raises                 *)
(* RateLimitException instead of running the function (raise_on_limit is   *)
(* left at its default).  It never sleeps.  Time is in seconds.            *)
(***************************************************************************)
MaxClock      == 240   \* the clock stops here
MaxRejections == 2     \* calls refused by the decorator per run

limits_calls  == 15
limits_period == 120
ClockStep     == 40    \* time between two looks at the clock

InitLB ==
    lb = [ phase      |-> "ready",
           clock      |-> 0,
           last_reset |-> 0,     \* set when the module is imported
           num_calls  |-> 0,
           outcome    |-> "none",
           rejected   |-> 0 ]

\* call_api(ebook_id, api_id, api_key): the decorator's wrapper, then the
\* request of lines 11-32 when the wrapper lets the call through.
call_api ==
    LET
        \* period_remaining = period - (clock() - last_reset)
        \* services/api_list_booking.py, line 10
        period_remaining == limits_period - (lb.clock - lb.last_reset)
    IN
    /\ lb.phase = "ready"
    /\ lb.rejected < MaxRejections
    /\ LET reset == period_remaining <= 0
           num   == (IF reset THEN 0 ELSE lb.num_calls) + 1
       IN lb' = [lb EXCEPT
                   !.num_calls  = num,
                   !.last_reset = IF reset THEN lb.clock ELSE @,
                   !.outcome    = IF num > limits_calls
                                  THEN "RateLimitException"
                                  ELSE "response",
                   !.rejected   = IF num > limits_calls THEN @ + 1 ELSE @]
    /\ UNCHANGED rlVars
    /\ UNCHANGED <<fd, bk, sm, dr, wf, pg, fs, ui, rs>>

\* Time passes between two calls
clock_advances ==
    /\ lb.phase = "ready"
    /\ lb.clock < MaxClock
    /\ lb' = [lb EXCEPT !.clock = @ + ClockStep]
    /\ UNCHANGED rlVars
    /\ UNCHANGED <<fd, bk, sm, dr, wf, pg, fs, ui, rs>>

NextLB ==
    \/ call_api
    \/ clock_advances

(***************************************************************************)
(* Date-range fetch: services/api_list_recent_bookings.py,                 *)
(* get_recent_bookings_for_date_range.  Dates are day numbers.             *)
(***************************************************************************)
MaxRangeDays == 3    \* ranges up to this length meet every mix of responses
MaxFailures  == 1    \* failed dates of a longer range

\* Line 208: the longest range that is fetched
DateRangeLimit == 50

InitDR ==
    LET
        \* Ranges starting at day 0: empty, short, and the two around the limit
        \* services/api_list_recent_bookings.py, lines 192-196
        RangeEnds ==
            (-1 .. (MaxRangeDays - 1)) \cup {DateRangeLimit - 1, DateRangeLimit}
        \* services/api_list_recent_bookings.py, lines 188-189
        NoResult == [returned |-> FALSE]
    IN
    \E e \in RangeEnds :
        dr = [ phase        |-> "called",
               start_dt     |-> 0,
               end_dt       |-> e,
               current_date |-> 0,
               requested    |-> <<>>,
               responses    |-> <<>>,
               all_bookings |-> <<>>,
               errors       |-> <<>>,
               result       |-> NoResult ]

\* Line 196: total_days = (end_dt - start_dt).days + 1
total_days == dr.end_dt - dr.start_dt + 1

\* Lines 190-220: the range is measured and refused when it is too long
check_range ==
    /\ dr.phase = "called"
    /\ IF total_days > DateRangeLimit
       THEN dr' = [dr EXCEPT
                     !.phase = "done",
                     !.result = [returned       |-> TRUE,
                                 bookings       |-> <<>>,
                                 days_processed |-> 0,
                                 errors |-> << [date |-> -1,
                                                kind |-> "Date range too large",
                                                status_code |-> 0] >>,
                                 success        |-> FALSE]]
       ELSE dr' = [dr EXCEPT !.phase = "loop", !.current_date = dr.start_dt]
    /\ UNCHANGED rlVars
    /\ UNCHANGED <<fd, bk, sm, lb, wf, pg, fs, ui, rs>>

\* Line 223 leaving the last date out
LoopContinues_strict(current_date, end_dt) == current_date < end_dt
\* Line 223: while current_date <= end_dt
LoopContinues(current_date, end_dt) == current_date <= end_dt

\* Lines 223-263: one pass of the loop: the request for current_date (behind
\* the rate guard, which only delays), the handling of its response, and the
\* step to the next date.
fetch_date ==
    LET
        \* What call_recent_bookings_api returns for one date: a 200 with bookings,
        \* a 200 whose body says success: false, a 200 whose body is not JSON, an
        \* HTTP error, or the ErrorResponse of lines 156-166 for a network failure.
        Responses ==
            { [ok |-> TRUE,  kind |-> "bookings",      status_code |-> 200],
              [ok |-> TRUE,  kind |-> "api_failure",   status_code |-> 200],
              [ok |-> TRUE,  kind |-> "bad_json",      status_code |-> 200],
              [ok |-> FALSE, kind |-> "http_error",    status_code |-> 404],
              [ok |-> FALSE, kind |-> "ErrorResponse", status_code |-> 500] }
        \* Lines 240-260: what one response adds to errors
        ErrorEntries(date, response) ==
            IF response.ok
            THEN IF response.kind = "bookings" THEN <<>>
                 ELSE IF response.kind = "api_failure"
                      THEN << [date |-> date, kind |-> "API returned failure",
                               status_code |-> 0] >>
                      ELSE << [date |-> date, kind |-> "JSON decode error",
                               status_code |-> 0] >>
            ELSE << [date |-> date, kind |-> "API error",
                     status_code |-> response.status_code] >>
    IN
    /\ dr.phase = "loop"
    /\ LoopContinues(dr.current_date, dr.end_dt)
    /\ \E response \in Responses :
        /\ \/ response.kind = "bookings"
           \/ total_days <= MaxRangeDays
           \/ Len(dr.errors) < MaxFailures
        /\ dr' = [dr EXCEPT
                    !.requested = Append(@, dr.current_date),
                    !.responses = Append(@, response),
                    !.all_bookings =
                        IF response.kind = "bookings"
                        THEN Append(@, [query_date |-> dr.current_date])
                        ELSE @,
                    !.errors = @ \o ErrorEntries(dr.current_date, response),
                    !.current_date = @ + 1]
    /\ UNCHANGED rlVars
    /\ UNCHANGED <<fd, bk, sm, lb, wf, pg, fs, ui, rs>>

\* Lines 265-277: the loop is over and the result is returned
return_result ==
    /\ dr.phase = "loop"
    /\ ~LoopContinues(dr.current_date, dr.end_dt)
    /\ dr' = [dr EXCEPT
                !.phase = "done",
                !.result = [returned       |-> TRUE,
                            bookings       |-> dr.all_bookings,
                            days_processed |-> total_days,
                            errors         |-> dr.errors,
                            success        |-> Len(dr.errors) = 0]]
    /\ UNCHANGED rlVars
    /\ UNCHANGED <<fd, bk, sm, lb, wf, pg, fs, ui, rs>>

NextDR ==
    \/ check_range
    \/ fetch_date
    \/ return_result

(***************************************************************************)
(* Created-date window filters: ui/recent_bookings.py                      *)
(* Instants are minutes and dates are whole days since 2025-05-01 00:00.   *)
(***************************************************************************)
MaxRecords == 3     \* longest list handed to a window filter

WindowBookings ==
    LET
        \* Values of the raw createdDate field handed to the window filters
        \* ui/recent_bookings.py, lines 674-679
        WindowCreatedDates ==
            { CreatedMissing, CreatedInvalid,
              \* 2025-05-31T14:59+0000 = 2025-05-31T23:59 JST
              Timestamp(30 * MinutesPerDay + 14 * 60 + 59, TRUE, 0),
              \* 2025-06-22T00:59+0000 = 2025-06-22T09:59 JST
              Timestamp(52 * MinutesPerDay + 59, TRUE, 0),
              \* 2025-06-22T14:59+0000 = 2025-06-22T23:59 JST
              Timestamp(52 * MinutesPerDay + 14 * 60 + 59, TRUE, 0),
              \* 2025-06-22T15:01+0000 = 2025-06-23T00:01 JST
              Timestamp(52 * MinutesPerDay + 15 * 60 + 1, TRUE, 0),
              \* 2025-06-23T14:59 without offset = 2025-06-23T23:59 JST
              Timestamp(53 * MinutesPerDay + 14 * 60 + 59, FALSE, 0),
              \* 2025-06-22T09:30+0900 = 2025-06-22T00:30 UTC = 2025-06-22T09:30 JST
              Timestamp(52 * MinutesPerDay + 9 * 60 + 30, TRUE, JSTOffset) }
    IN
    { [eId |-> e, bookingId |-> <<"a">>, createdDate |-> c] :
        e \in {<<"7">>, <<"8">>}, c \in WindowCreatedDates }

RECURSIVE WindowListsUpTo(_)
WindowListsUpTo(n) ==
    IF n = 0 THEN {<<>>}
    ELSE LET shorter == WindowListsUpTo(n - 1)
         IN shorter \cup {Append(l, b) : l \in {x \in shorter : Len(x) = n - 1},
                                         b \in WindowBookings}

\* line 679: pd.to_datetime(created_date).tz_localize(None) drops the offset
\* and keeps the wall-clock reading
created_dt_localized(c) == c.t

\* line 664: now_jst - datetime.timedelta(hours=24)
cutoff_time_jst_today(utcnow) ==
    DateOf(utcnow + JSTOffset) * MinutesPerDay
cutoff_time_jst(utcnow) == (utcnow + JSTOffset) - MinutesPerDay

\* The filter as it would be if a createdDate that cannot be parsed were kept
_filter_created_last_24_hours_keep_unparsed(parsed_bookings, utcnow) ==
    SelectSeq(parsed_bookings, LAMBDA booking :
        LET created_date == booking.createdDate
        IN /\ created_date.kind # "missing"
           /\ created_date.kind = "ts"
                 => created_dt_localized(created_date) + JSTOffset
                       >= cutoff_time_jst(utcnow))
\* _filter_created_last_24_hours, lines 660-691
_filter_created_last_24_hours(parsed_bookings, utcnow) ==
    SelectSeq(parsed_bookings, LAMBDA booking :
        LET created_date == booking.createdDate
        IN /\ created_date.kind # "missing"          \* if created_date:
           /\ created_date.kind = "ts"               \* pd.to_datetime succeeds
           /\ created_dt_localized(created_date) + JSTOffset
                 >= cutoff_time_jst(utcnow))

\* _filter_created_today, lines 951-987
_filter_created_today(parsed_bookings, utcnow) ==
    SelectSeq(parsed_bookings, LAMBDA booking :
        LET created_date == booking.createdDate
        IN /\ created_date.kind # "missing"
           /\ created_date.kind = "ts"
           /\ DateOf(created_dt_utc(created_date) + JSTOffset)
                 = DateOf(utcnow + JSTOffset))

\* _filter_created_custom_date_range, lines 1027-1064
_filter_created_custom_date_range(parsed_bookings, start_date, end_date) ==
    LET
        \* lines 1030-1031: datetime.combine(start_date, time.min) and
        \* datetime.combine(end_date, time.max), to the minute
        start_dt_jst == start_date * MinutesPerDay
        \* ui/recent_bookings.py, line 1031
        end_dt_jst == end_date * MinutesPerDay + (MinutesPerDay - 1)
    IN
    SelectSeq(parsed_bookings, LAMBDA booking :
        LET created_date == booking.createdDate
        IN /\ created_date.kind # "missing"
           /\ created_date.kind = "ts"
           /\ start_dt_jst
                 <= created_dt_utc(created_date) + JSTOffset
           /\ created_dt_utc(created_date) + JSTOffset
                 <= end_dt_jst)

\* _filter_created_month_to_date, lines 1066-1105
_filter_created_month_to_date(parsed_bookings, utcnow) ==
    LET
        \* line 1072: now_jst.replace(day=1, hour=0, minute=0, second=0,
        \* microsecond=0)
        first_day_of_month(now_jst) ==
            LET
                \* First days of the months of the calendar: 2025-05-01,
                \* 2025-06-01, 2025-07-01
                \* ui/recent_bookings.py, line 1072
                MonthStarts == {0, 31, 61}
            IN
            LET started == {d \in MonthStarts : d * MinutesPerDay <= now_jst}
            IN (CHOOSE d \in started : \A e \in started : e <= d) * MinutesPerDay
    IN
    SelectSeq(parsed_bookings, LAMBDA booking :
        LET created_date == booking.createdDate
        IN /\ created_date.kind # "missing"
           /\ created_date.kind = "ts"
           /\ first_day_of_month(utcnow + JSTOffset)
                 <= created_dt_utc(created_date) + JSTOffset
           /\ created_dt_utc(created_date) + JSTOffset <= utcnow + JSTOffset)

\* display_recent_bookings_section, lines 1333-1351: the time filter chosen by
\* the period option
time_filtered_bookings(filter_option, parsed_bookings, utcnow, range) ==
    CASE filter_option = "Last 24 hours" ->
             _filter_created_last_24_hours(parsed_bookings, utcnow)
      [] filter_option = "2 days" ->
             _filter_created_last_n_days(parsed_bookings, 2, utcnow)
      [] filter_option = "3 days" ->
             _filter_created_last_n_days(parsed_bookings, 3, utcnow)
      [] filter_option = "5 days" ->
             _filter_created_last_n_days(parsed_bookings, 5, utcnow)
      [] filter_option = "7 days" ->
             _filter_created_last_n_days(parsed_bookings, 7, utcnow)
      [] filter_option = "14 days" ->
             _filter_created_last_n_days(parsed_bookings, 14, utcnow)
      [] filter_option = "Month to Date" ->
             _filter_created_month_to_date(parsed_bookings, utcnow)
      [] filter_option = "Custom" ->
             _filter_created_custom_date_range(parsed_bookings,
                                               range[1], range[2])
      [] OTHER -> parsed_bookings

InitWF ==
    LET
        \* datetime.datetime.utcnow(): 2025-05-31T20:00 (2025-06-01T05:00 JST) and
        \* 2025-06-23T01:00 (2025-06-23T10:00 JST)
        \* ui/recent_bookings.py, line 663
        WindowReferenceTimes ==
            {30 * MinutesPerDay + 20 * 60, 53 * MinutesPerDay + 60}
        \* line 1193: the options of the period select box
        period_options ==
            { "Last 24 hours", "2 days", "3 days", "5 days", "7 days", "14 days",
              "Month to Date", "Custom" }
        \* (start_date, end_date) of the custom range, as dates: 2025-06-22 to
        \* 2025-06-23, 2025-06-23 alone, and 2025-05-31 to 2025-06-22
        \* ui/recent_bookings.py, lines 1243-1254
        CustomRanges == { <<52, 53>>, <<53, 53>>, <<30, 52>> }
    IN
    \E data \in WindowListsUpTo(MaxRecords), filter_option \in period_options,
       utcnow \in WindowReferenceTimes, range \in CustomRanges :
        wf = [ phase         |-> "parsed",
               parsed        |-> get_parsed_bookings(data),
               filter_option |-> filter_option,
               utcnow        |-> utcnow,
               range         |-> IF filter_option = "Custom" THEN range
                                 ELSE <<0, 0>>,
               called        |-> "none",
               filtered      |-> <<>> ]

\* display_recent_bookings_section applies the time filter of the selected
\* period to the parsed bookings.
apply_time_filter ==
    /\ wf.phase = "parsed"
    /\ wf' = [wf EXCEPT
                !.phase = "filtered",
                !.called = wf.filter_option,
                !.filtered = time_filtered_bookings(wf.filter_option, wf.parsed,
                                                    wf.utcnow, wf.range)]
    /\ UNCHANGED rlVars
    /\ UNCHANGED <<fd, bk, sm, lb, dr, pg, fs, ui, rs>>

\* A direct call of _filter_created_today on the parsed bookings.
call_filter_created_today ==
    /\ wf.phase = "parsed"
    /\ wf' = [wf EXCEPT
                !.phase = "filtered",
                !.called = "today",
                !.filtered = _filter_created_today(wf.parsed, wf.utcnow)]
    /\ UNCHANGED rlVars
    /\ UNCHANGED <<fd, bk, sm, lb, dr, pg, fs, ui, rs>>

\* A direct call of _filter_created_last_n_days with days = 1.
call_filter_created_last_1_day ==
    /\ wf.phase = "parsed"
    /\ wf' = [wf EXCEPT
                !.phase = "filtered",
                !.called = "1 day",
                !.filtered = _filter_created_last_n_days(wf.parsed, 1, wf.utcnow)]
    /\ UNCHANGED rlVars
    /\ UNCHANGED <<fd, bk, sm, lb, dr, pg, fs, ui, rs>>

NextWF ==
    \/ apply_time_filter
    \/ call_filter_created_today
    \/ call_filter_created_last_1_day

(***************************************************************************)
(* Paginated bookings client: services/holiday_niseko_api.py and           *)
(* list_bookings.py, HolidayNisekoAPI.get_all_bookings                     *)
(***************************************************************************)
MaxPages == 3      \* no page beyond this one is requested

PageSize == 20     \* len(bookings) < 20 ends the pagination

Payloads ==
    LET
        \* What GET /bookings?page=N brings back: a JSON list of n bookings, an object
        \* holding them under "bookings" or under "data", another object with n keys,
        \* or a failed request (get_bookings raises).
        \* services/holiday_niseko_api.py, line 64
        PageLengths == {0, 1, PageSize - 1, PageSize, PageSize + 1}
        \* services/holiday_niseko_api.py, lines 73-76
        ObjectKeys  == {0, 2}
    IN
    [shape : {"list", "bookings", "data"}, n : PageLengths]
        \cup [shape : {"object"}, n : ObjectKeys]
        \cup [shape : {"error"}, n : {0}]

\* The n bookings of page number page
BookingsOfPage(page, n) ==
    [i \in 1..n |-> [kind |-> "booking", page |-> page, index |-> i]]

\* services/holiday_niseko_api.py lines 67-76: the bookings taken from a payload
bookings_services(payload, page) ==
    IF payload.shape \in {"list", "bookings", "data"}
    THEN BookingsOfPage(page, payload.n)
    ELSE IF payload.n > 0                  \* [payload] if payload else []
    THEN << [kind |-> "payload", page |-> page, index |-> 0] >>
    ELSE <<>>

\* list_bookings.py lines 126-134: for an object of another shape the
\* "bookings" are the object itself, which extend() iterates by its keys
bookings_list_bookings(payload, page) ==
    IF payload.shape \in {"list", "bookings", "data"}
    THEN BookingsOfPage(page, payload.n)
    ELSE [i \in 1..payload.n |-> [kind |-> "key", page |-> page, index |-> i]]

\* line 83 (line 142): if len(bookings) < 20: break
LastPage_at_most(bookings) == Len(bookings) <= PageSize
LastPage(bookings) == Len(bookings) < PageSize

InitPG ==
    LET
        \* The two implementations of get_all_bookings
        \* list_bookings.py, line 97
        Implementations == {"services", "list_bookings"}
    IN
    \E impl \in Implementations :
        pg = [ phase     |-> "loop",
               impl      |-> impl,
               page      |-> 1,
               out       |-> <<>>,
               requested |-> <<>>,
               payloads  |-> <<>> ]

\* One iteration of the while loop with the payload the upstream sent: the
\* request of the current page, the extraction of its bookings, and either
\* the return of the accumulated list or the step to the next page.
LoopIteration(payload, bookings) ==
    /\ pg.phase = "loop"
    /\ pg.page <= MaxPages
    /\ pg' = IF payload.shape = "error"
             THEN [pg EXCEPT !.phase = "raised",
                             !.requested = Append(@, pg.page),
                             !.payloads = Append(@, payload)]
             ELSE IF Len(bookings) = 0            \* if not bookings: break
             THEN [pg EXCEPT !.phase = "returned",
                             !.requested = Append(@, pg.page),
                             !.payloads = Append(@, payload)]
             ELSE IF LastPage(bookings)
             THEN [pg EXCEPT !.phase = "returned",
                             !.out = @ \o bookings,
                             !.requested = Append(@, pg.page),
                             !.payloads = Append(@, payload)]
             ELSE [pg EXCEPT !.page = @ + 1,
                             !.out = @ \o bookings,
                             !.requested = Append(@, pg.page),
                             !.payloads = Append(@, payload)]
    /\ UNCHANGED rlVars
    /\ UNCHANGED <<fd, bk, sm, lb, dr, wf, fs, ui, rs>>

\* services/holiday_niseko_api.py, get_all_bookings, lines 53-87
get_all_bookings_services ==
    /\ pg.impl = "services"
    /\ \E payload \in Payloads :
          LoopIteration(payload, bookings_services(payload, pg.page))

\* list_bookings.py, get_all_bookings, lines 97-151
get_all_bookings_list_bookings ==
    /\ pg.impl = "list_bookings"
    /\ \E payload \in Payloads :
          LoopIteration(payload, bookings_list_bookings(payload, pg.page))

NextPG ==
    \/ get_all_bookings_services
    \/ get_all_bookings_list_bookings

(***************************************************************************)
(* Recent-bookings fetch and its session state: ui/recent_bookings.py,     *)
(* fetch_recent_bookings, _should_refresh_data, _fetch_bookings_cached     *)
(* Time is in seconds.  A list of bookings is named by the upstream        *)
(* request that delivered it: 0 is the empty list, n > 0 the non-empty     *)
(* list of the n-th upstream request.                                      *)
(***************************************************************************)
MaxFetchClock == 600    \* the clock stops here
MaxUpstream   == 2      \* upstream requests of one run

FetchClockStep == 150   \* seconds between two observations of the clock
RefreshSeconds == 300   \* line 189: total_seconds() > 300
FetchTTL       == 300   \* line 197: @st.cache_data(ttl=300)

\* Python None, and str() as the f-string of line 240 applies it
NoValue == "<None>"
Str(value) == IF value = NoValue THEN "None" ELSE value

\* The (filter_type, custom_days, start_date, end_date) of the calls: a
\* window of days, a date range, and a date range without its dates
Requests ==
    { <<"last_n_days", "2", NoValue, NoValue>>,
      <<"date_range", "7", "2025-06-01", "2025-06-23">>,
      <<"date_range", "7", NoValue, NoValue>> }

\* line 240: f"{filter_type}_{custom_days}_{start_date}_{end_date}"
filter_key(request) ==
    << request[1], "_", Str(request[2]), "_", Str(request[3]), "_",
       Str(request[4]) >>

\* lines 205-216: the parameters for which an upstream function is called
ValidRequest(request) ==
    \/ request[1] = "today"
    \/ request[1] = "last_n_days"
    \/ request[1] = "date_range" /\ request[3] # NoValue /\ request[4] # NoValue

NoRefresh == -1

NoEntry   == [at |-> -1, success |-> FALSE, bookings |-> 0]

\* initialize_session_state, lines 155-176
InitFS ==
    LET
        \* ui/recent_bookings.py, lines 175-176
        NoKey     == <<>>
    IN
    fs = [ phase       |-> "idle",
           clock       |-> 0,
           upstream    |-> 0,
           recent_bookings_data              |-> 0,
           recent_bookings_last_refresh      |-> NoRefresh,
           recent_bookings_filter            |-> "today",
           recent_bookings_initialized       |-> FALSE,
           recent_bookings_parsed_cache      |-> {},
           recent_bookings_last_filter_state |-> NoKey,
           memo        |-> [r \in Requests |-> NoEntry],
           call        |-> [request |-> <<>>, force_refresh |-> FALSE,
                            requested |-> FALSE],
           result      |-> [success |-> TRUE, bookings |-> 0,
                            from_cache |-> FALSE] ]

\* _should_refresh_data, lines 178-195
_should_refresh_data(key) ==
    \/ fs.recent_bookings_last_filter_state # key
    \/ /\ fs.recent_bookings_last_refresh # NoRefresh
       /\ fs.clock - fs.recent_bookings_last_refresh > RefreshSeconds
    \/ fs.recent_bookings_data = 0 /\ ~fs.recent_bookings_initialized

\* st.cache_data(ttl=300): a stored return value is served while it is
\* younger than the ttl
MemoHit(request) ==
    /\ fs.memo[request] # NoEntry
    /\ fs.clock - fs.memo[request].at < FetchTTL

\* lines 243-250: the stored bookings are returned
ServedFromSession(request, force_refresh) ==
    /\ ~force_refresh
    /\ ~_should_refresh_data(filter_key(request))
    /\ fs.recent_bookings_data # 0

\* _fetch_bookings_cached, lines 197-225, behind its st.cache_data memo: the
\* value it returns for the request when the upstream call ends in outcome
FetchedResult(request, outcome) ==
    IF MemoHit(request)
    THEN [success |-> fs.memo[request].success,
          bookings |-> fs.memo[request].bookings, from_cache |-> FALSE]
    ELSE IF ~ValidRequest(request)
    THEN [success |-> FALSE, bookings |-> 0, from_cache |-> FALSE]
    ELSE IF outcome = "bookings"
    THEN [success |-> TRUE, bookings |-> fs.upstream + 1, from_cache |-> FALSE]
    ELSE IF outcome = "empty"
    THEN [success |-> TRUE, bookings |-> 0, from_cache |-> FALSE]
    ELSE [success |-> FALSE, bookings |-> 0, from_cache |-> FALSE]

\* An upstream request is made when the memo holds no fresh value and the
\* parameters select an upstream function.
UpstreamRequested(request) == ~MemoHit(request) /\ ValidRequest(request)

\* The memo after the call: a value that _fetch_bookings_cached returned is
\* stored under its parameters; nothing is stored when the call raised.
MemoAfter(request, outcome) ==
    IF MemoHit(request) \/ outcome = "cache_raises"
    THEN fs.memo
    ELSE LET res == FetchedResult(request, outcome)
         IN [fs.memo EXCEPT ![request] =
                [at |-> fs.clock, success |-> res.success,
                 bookings |-> res.bookings]]

\* lines 257-274: the session state is written when the result reports success
StoresResult_always(result) == TRUE
StoresResult(result) == result.success

\* fetch_recent_bookings, lines 227-286
fetch_recent_bookings ==
    LET
        \* What the upstream call of _fetch_bookings_cached ends in: bookings, no
        \* bookings, a result with success = False, an exception inside the try of
        \* lines 200-225 (turned into a failure result), or an exception of the cache
        \* layer that leaves _fetch_bookings_cached
        Outcomes == {"bookings", "empty", "failure", "api_raises", "cache_raises"}
    IN
    \E request \in Requests, force_refresh \in BOOLEAN, outcome \in Outcomes :
        /\ fs.phase = "idle"
        /\ fs.upstream < MaxUpstream
        /\ IF ServedFromSession(request, force_refresh)
           THEN fs' = [fs EXCEPT
                   !.call = [request |-> request,
                             force_refresh |-> force_refresh,
                             requested |-> FALSE],
                   !.result = [success |-> TRUE,
                               bookings |-> fs.recent_bookings_data,
                               from_cache |-> TRUE]]
           ELSE LET raised == ~MemoHit(request) /\ outcome = "cache_raises"
                    result == IF raised
                              THEN [success |-> FALSE, bookings |-> 0,
                                    from_cache |-> FALSE]
                              ELSE FetchedResult(request, outcome)
                    requested == UpstreamRequested(request)
                    called == [request |-> request,
                               force_refresh |-> force_refresh,
                               requested |-> requested]
                    upstream == IF requested THEN fs.upstream + 1
                                ELSE fs.upstream
                IN IF StoresResult(result)
                   THEN fs' = [fs EXCEPT
                           !.call = called,
                           !.result = result,
                           !.upstream = upstream,
                           !.memo = MemoAfter(request, outcome),
                           !.recent_bookings_data = result.bookings,
                           !.recent_bookings_last_refresh = fs.clock,
                           !.recent_bookings_filter = request[1],
                           !.recent_bookings_initialized = TRUE,
                           !.recent_bookings_last_filter_state =
                               filter_key(request),
                           !.recent_bookings_parsed_cache = {}]
                   ELSE fs' = [fs EXCEPT
                           !.call = called,
                           !.result = result,
                           !.upstream = upstream,
                           !.memo = MemoAfter(request, outcome)]
        /\ UNCHANGED rlVars
        /\ UNCHANGED <<fd, bk, sm, lb, dr, wf, pg, ui, rs>>

\* get_parsed_bookings, lines 295-314: the parsed bookings are stored under
\* the hash of the data
get_parsed_bookings_cached ==
    /\ fs.phase = "idle"
    /\ fs.recent_bookings_data # 0
    /\ fs.recent_bookings_data \notin fs.recent_bookings_parsed_cache
    /\ fs' = [fs EXCEPT !.recent_bookings_parsed_cache =
                            @ \cup {fs.recent_bookings_data}]
    /\ UNCHANGED rlVars
    /\ UNCHANGED <<fd, bk, sm, lb, dr, wf, pg, ui, rs>>

\* datetime.datetime.now() moves on between two calls
fetch_clock_advances ==
    /\ fs.phase = "idle"
    /\ fs.clock + FetchClockStep <= MaxFetchClock
    /\ fs' = [fs EXCEPT !.clock = @ + FetchClockStep]
    /\ UNCHANGED rlVars
    /\ UNCHANGED <<fd, bk, sm, lb, dr, wf, pg, ui, rs>>

NextFS ==
    \/ fetch_recent_bookings
    \/ get_parsed_bookings_cached
    \/ fetch_clock_advances

(***************************************************************************)
(* Recent-bookings section on its two pages: the filter selection, the     *)
(* reload it triggers and the using_recent flag.                           *)
(* ui/recent_bookings.py display_recent_bookings_section and               *)
(* display_bookings_list, pages/1 Booking Viewer, pages/2 Recent Bookings  *)
(***************************************************************************)
MaxReruns == 6     \* script runs of one session

LocationOf(page) == IF page = "Booking_Viewer" THEN "main" ELSE "page"
Locations == {"main", "page"}

\* line 1288: f'{filter_option}_{start_date}_{end_date}_{content_filter}_
\* {management_type_filter}_{season_filter}'
current_filter_key(sel) ==
    LET
        \* lines 1271-1285: start_date and end_date of the selection
        SelectionStart ==
            IF sel.filter_option = "Month to Date" THEN "2025-06-01" ELSE NoValue
        \* ui/recent_bookings.py, lines 1264-1285
        SelectionEnd ==
            IF sel.filter_option = "Month to Date" THEN "2025-06-23" ELSE NoValue
    IN
    << sel.filter_option, "_", Str(SelectionStart), "_",
       Str(SelectionEnd), "_", sel.content_filter, "_", "All", "_",
       "All Seasons" >>

\* line 1292: the condition of the reload
MustReload(state, location, force_refresh) ==
    /\ \/ current_filter_key(state.selection[location])
             # state.last_filter_key[location]
       \/ force_refresh
    /\ ~state.using_recent

\* display_recent_bookings_section, lines 1287-1327, run in session state
\* state: the reload when the filter key changed or a refresh is forced, and
\* the key it remembers.
SectionRun(state, location, force_refresh) ==
    IF MustReload(state, location, force_refresh)
    THEN [state EXCEPT
            !.last_filter_key[location] =
                current_filter_key(state.selection[location]),
            !.loaded_key = current_filter_key(state.selection[location]),
            !.reloaded = TRUE,
            !.shown = location]
    ELSE [state EXCEPT !.reloaded = FALSE, !.shown = location]

\* One run of the script of the page that is open
ScriptRun(state, force_refresh) ==
    LET
        \* pages/2 main, lines 127-134: the section is always shown
        RecentBookingsRun ==
            SectionRun(state, "page", force_refresh)
        \* pages/1 main, lines 481-516 and 601-616: the flag is reset once a recent
        \* selection is taken over; the section is shown when there is no search.
        BookingViewerRun ==
            LET reset == IF state.using_recent /\ state.last_search
                         THEN [state EXCEPT !.using_recent = FALSE]
                         ELSE state
            IN IF reset.last_search
               THEN [reset EXCEPT !.reloaded = FALSE, !.shown = "none"]
               ELSE SectionRun(reset, "main", force_refresh)
    IN
    IF state.page = "Booking_Viewer"
    THEN BookingViewerRun
    ELSE RecentBookingsRun

\* The session before its first script run; the first run is the opening of
\* one of the pages.
InitUI ==
    LET
        \* ui/recent_bookings.py, lines 1191-1197
        DefaultSelection == [filter_option |-> "2 days", content_filter |-> "All"]
    IN
    ui = [ phase           |-> "closed",
           page            |-> "Booking_Viewer",
           using_recent    |-> FALSE,
           last_search     |-> FALSE,
           selection       |-> [l \in Locations |-> DefaultSelection],
           last_filter_key |-> [l \in Locations |-> <<>>],
           loaded_key      |-> <<>>,
           reloaded        |-> FALSE,
           shown           |-> "none",
           reruns          |-> 0 ]

SectionShown == ui.phase = "open" /\ ui.shown = LocationOf(ui.page)

\* The user opens a page from the navigation: its script runs.
open_page ==
    LET
        \* The pages that show the section and the location each passes to it
        \* pages/2 Recent Bookings, lines 127-134
        Pages == {"Booking_Viewer", "Recent_Bookings"}
    IN
    \E page \in Pages :
        /\ ui.reruns < MaxReruns
        /\ ui' = ScriptRun([ui EXCEPT !.phase = "open", !.page = page,
                                      !.reruns = @ + 1], FALSE)
        /\ UNCHANGED rlVars
        /\ UNCHANGED <<fd, bk, sm, lb, dr, wf, pg, fs, rs>>

\* The user changes a filter widget of the section: the script reruns with
\* the new selection.
change_filter ==
    LET
        \* A selection of the filter widgets: period and content filter; the
        \* management type and season filters stay at "All" and "All Seasons".
        \* ui/recent_bookings.py, lines 1191-1210
        Selections ==
            [filter_option : {"2 days", "Month to Date"},
             content_filter : {"All", "Unpaid"}]
    IN
    \E sel \in Selections :
        /\ SectionShown
        /\ ui.reruns < MaxReruns
        /\ sel # ui.selection[LocationOf(ui.page)]
        /\ ui' = ScriptRun([ui EXCEPT !.selection[LocationOf(ui.page)] = sel,
                                      !.reruns = @ + 1], FALSE)
        /\ UNCHANGED rlVars
        /\ UNCHANGED <<fd, bk, sm, lb, dr, wf, pg, fs, rs>>

\* The user presses the Refresh button: the script reruns with force_refresh.
press_refresh ==
    LET
        \* lines 1255-1285: the Refresh button exists for the periods "Custom" and
        \* "Month to Date" only
        HasRefreshButton(sel) == sel.filter_option \in {"Custom", "Month to Date"}
    IN
    /\ SectionShown
    /\ ui.reruns < MaxReruns
    /\ HasRefreshButton(ui.selection[LocationOf(ui.page)])
    /\ ui' = ScriptRun([ui EXCEPT !.reruns = @ + 1], TRUE)
    /\ UNCHANGED rlVars
    /\ UNCHANGED <<fd, bk, sm, lb, dr, wf, pg, fs, rs>>

\* display_bookings_list, lines 1597-1605: the user opens a booking of the
\* list; last_search and using_recent are set and st.rerun() runs the script.
open_booking ==
    /\ SectionShown
    /\ ui.reruns < MaxReruns
    /\ ui.loaded_key # <<>>
    /\ ui' = ScriptRun([ui EXCEPT !.last_search = TRUE,
                                  !.using_recent = TRUE,
                                  !.reruns = @ + 1], FALSE)
    /\ UNCHANGED rlVars
    /\ UNCHANGED <<fd, bk, sm, lb, dr, wf, pg, fs, rs>>

\* pages/1 main, lines 594-600: Clear removes last_search and reruns.
press_clear ==
    /\ ui.phase = "open"
    /\ ui.page = "Booking_Viewer"
    /\ ui.reruns < MaxReruns
    /\ ui' = ScriptRun([ui EXCEPT !.last_search = FALSE,
                                  !.reruns = @ + 1], FALSE)
    /\ UNCHANGED rlVars
    /\ UNCHANGED <<fd, bk, sm, lb, dr, wf, pg, fs, rs>>

NextUI ==
    \/ open_page
    \/ change_filter
    \/ press_refresh
    \/ open_booking
    \/ press_clear

(***************************************************************************)
(* Booking Viewer, recent searches: pages/1_Booking_Viewer.py main and     *)
(* fetch_booking_data                                                      *)
(* A text is a sequence of tokens: " " is white space, any other token a   *)
(* run of characters without white space.                                  *)
(***************************************************************************)
MaxSearches == 13    \* script runs of one session

RecentLimit == 10    \* line 589: recent_bookings[:10]

\* Booking IDs the user searches for, as numbers; the odd ones exist upstream
IdToken(n) == ToString(n)

\* str.strip(): leading and trailing white space removed
RECURSIVE StripLeft(_)
StripLeft(text) ==
    IF Len(text) > 0 /\ Head(text) = " " THEN StripLeft(Tail(text)) ELSE text
RECURSIVE StripRight(_)
StripRight(text) ==
    IF Len(text) > 0 /\ text[Len(text)] = " "
    THEN StripRight(SubSeq(text, 1, Len(text) - 1))
    ELSE text
strip(text) == StripRight(StripLeft(text))

NoSearch == <<"<absent>">>     \* "last_search" not in st.session_state

InitRS ==
    rs = [ phase           |-> "open",
           recent_bookings |-> <<>>,
           text            |-> <<>>,
           last_search     |-> NoSearch,
           using_recent    |-> FALSE,
           fresh           |-> 0,
           runs            |-> 0 ]

\* line 579: clean_booking_id = booking_id.strip()
clean_booking_id_unstripped(booking_id) == booking_id
clean_booking_id(booking_id) == strip(booking_id)

\* line 583: [id.strip() for id, _, _ in st.session_state.recent_bookings]
existing_ids(recent_bookings) ==
    {strip(recent_bookings[i].id) : i \in 1..Len(recent_bookings)}

\* lines 585-589: a new ID goes to the front and the list is cut to 10
Remembered(recent_bookings, clean) ==
    IF clean \in existing_ids(recent_bookings)
    THEN recent_bookings
    ELSE LET inserted == <<[id |-> clean, property_name |-> "",
                           guest_name |-> ""]>> \o recent_bookings
         IN SubSeq(inserted, 1,
                   IF Len(inserted) < RecentLimit THEN Len(inserted)
                   ELSE RecentLimit)

\* fetch_booking_data, lines 218-269: when the booking exists, the entry of
\* its ID receives the property and guest names
Named(recent_bookings, last_search) ==
    LET
        \* pages/1 Booking Viewer, lines 212-218
        BookingExists(id) == \E n \in 1..MaxSearches : id = <<IdToken(n)>> /\ n % 2 = 1
    IN
    IF BookingExists(strip(last_search))
    THEN [i \in 1..Len(recent_bookings) |->
            IF strip(recent_bookings[i].id) = strip(last_search)
            THEN [recent_bookings[i] EXCEPT !.property_name = "vendor",
                                            !.guest_name = "full_name"]
            ELSE recent_bookings[i]]
    ELSE recent_bookings

\* One run of main, lines 470-616, with the text input holding booking_id and
\* the Clear button pressed or not.
MainRun(state, booking_id, clear_button) ==
    LET
        \* lines 489-508: every stored ID is stripped at the start of a run
        Normalised(recent_bookings) ==
            [i \in 1..Len(recent_bookings) |->
                [recent_bookings[i] EXCEPT !.id = strip(@)]]
    IN
    LET normalised == Normalised(state.recent_bookings)
        clean == clean_booking_id(booking_id)
        searched == Len(booking_id) > 0 /\ Len(clean) > 0
        remembered == IF searched THEN Remembered(normalised, clean)
                      ELSE normalised
        last_search == IF clear_button THEN NoSearch
                       ELSE IF searched THEN clean
                       ELSE state.last_search
    IN [state EXCEPT
          !.using_recent = FALSE,
          !.text = booking_id,
          !.last_search = last_search,
          !.recent_bookings = IF last_search # NoSearch
                              THEN Named(remembered, last_search)
                              ELSE remembered,
          !.runs = @ + 1]

\* The user enters a booking ID: a new one, one searched before, white space
\* only, or nothing.
search ==
    LET
        \* What the user types for booking number n: the ID alone or with white space
        \* before it, after it, or on both sides
        \* pages/1 Booking Viewer, lines 519-523
        TypedFor(n) ==
            { <<IdToken(n)>>, <<" ", IdToken(n)>>, <<IdToken(n), " ">>,
              <<" ", IdToken(n), " ">> }
    IN
    \E n \in 1..(rs.fresh + 1) :
    \E booking_id \in TypedFor(n) \cup {<<>>, <<" ">>} :
        /\ rs.runs < MaxSearches
        /\ rs' = [MainRun(rs, booking_id, FALSE) EXCEPT
                     !.fresh = IF n > rs.fresh /\ Len(strip(booking_id)) > 0
                               THEN n ELSE rs.fresh]
        /\ UNCHANGED rlVars
        /\ UNCHANGED <<fd, bk, sm, lb, dr, wf, pg, fs, ui>>

\* lines 563-568: a click on a recent search stores its ID as last_search,
\* sets using_recent and reruns; the run takes the ID as the input's value.
click_recent ==
    \E idx \in 1..Len(rs.recent_bookings) :
        /\ rs.runs < MaxSearches
        /\ rs' = MainRun([rs EXCEPT
                            !.last_search = rs.recent_bookings[idx].id,
                            !.using_recent = TRUE],
                         rs.recent_bookings[idx].id, FALSE)
        /\ UNCHANGED rlVars
        /\ UNCHANGED <<fd, bk, sm, lb, dr, wf, pg, fs, ui>>

\* lines 594-600: Clear removes last_search; the input keeps its text.
clear ==
    /\ rs.runs < MaxSearches
    /\ rs' = MainRun(rs, rs.text, TRUE)
    /\ UNCHANGED rlVars
    /\ UNCHANGED <<fd, bk, sm, lb, dr, wf, pg, fs, ui>>

NextRS ==
    \/ search
    \/ click_recent
    \/ clear

\* MARK-WEB

NextRL ==
    \/ \E t \in Threads : Call(t)
    \/ \E t \in Threads : Enter(t)
    \/ \E t \in Threads : HardWake(t)
    \/ \E t \in Threads : SoftWake(t)
    \/ \E t \in Threads : Record(t)
    \/ \E t \in Threads : get_current_api_call_rate(t)
    \/ Tick

\* Each specification starts its own component; the others stay idle. The
\* rate limiter's module-level state exists in every one of them.
InitSpec(component) ==
    /\ InitRL
    /\ IF component = "fd" THEN InitFD ELSE fd = [phase |-> "off"]
    /\ IF component = "bk" THEN InitAttr ELSE bk = [phase |-> "off"]
    /\ IF component = "sm" THEN InitSum ELSE sm = [phase |-> "off"]
    /\ IF component = "lb" THEN InitLB ELSE lb = [phase |-> "off"]
    /\ IF component = "dr" THEN InitDR ELSE dr = [phase |-> "off"]
    /\ IF component = "wf" THEN InitWF ELSE wf = [phase |-> "off"]
    /\ IF component = "pg" THEN InitPG ELSE pg = [phase |-> "off"]
    /\ IF component = "fs" THEN InitFS ELSE fs = [phase |-> "off"]
    /\ IF component = "ui" THEN InitUI ELSE ui = [phase |-> "off"]
    /\ IF component = "rs" THEN InitRS ELSE rs = [phase |-> "off"]

SpecRL == InitSpec("rl") /\ [][NextRL]_vars

\* The rate limiter under a fair scheduler: a thread that waits for the lock
\* obtains it when it is free again and again (threading.Lock.acquire blocks,
\* line 30), a sleep returns (time.sleep, lines 47 and 57-69) and a running
\* thread reaches its next statement.
SpecRLFair ==
    /\ InitSpec("rl")
    /\ [][NextRL]_vars
    /\ \A t \in Threads :
           /\ SF_vars(Enter(t))
           /\ WF_vars(HardWake(t))
           /\ WF_vars(SoftWake(t))
           /\ WF_vars(Record(t))

SpecFD == InitSpec("fd") /\ [][NextFD]_vars
SpecAttr == InitSpec("bk") /\ [][NextAttr]_vars
SpecSum == InitSpec("sm") /\ [][NextSum]_vars
SpecLB == InitSpec("lb") /\ [][NextLB]_vars
SpecDR == InitSpec("dr") /\ [][NextDR]_vars
SpecWF == InitSpec("wf") /\ [][NextWF]_vars
SpecPG == InitSpec("pg") /\ [][NextPG]_vars
SpecFS == InitSpec("fs") /\ [][NextFS]_vars
SpecUI == InitSpec("ui") /\ [][NextUI]_vars
SpecRS == InitSpec("rs") /\ [][NextRS]_vars

\* Number of recorded timestamps inside the trailing 60 seconds
WindowCount ==
    Cardinality({i \in 1..Len(_api_call_times) :
                    now - _api_call_times[i] < WindowTicks})

\* C1: at every moment the number of recorded call timestamps within the
\* trailing 60 seconds is at most the hard ceiling _hard_limit (50).
C1_WindowNeverExceedsHardLimit == WindowCount <= _hard_limit

\* C1 witness: back-to-back invocations have filled the window up to the
\* ceiling and the last of them has just recorded its call.
C1_Witness ==
    /\ WindowCount = _hard_limit
    /\ \E t \in Threads : pc[t] = "stats"

\* Thread t is inside the with-block of _smart_rate_limit
InCritical(t) == pc[t] \in {"hard_sleep", "soft_sleep", "record"}

\* C2: under every interleaving of the threads, the steps of two invocations
\* of the guard never interleave: at most one thread is between its prune and
\* its record (sleeps included), that thread owns the lock, the count it decided
\* on is still the length of the shared list (no update from a stale read), and
\* the ceiling of 50 calls per trailing 60 seconds holds.
C2_InvocationsAreSerialized ==
    /\ \A t, u \in Threads : (InCritical(t) /\ InCritical(u)) => t = u
    /\ \A t \in Threads :
          InCritical(t) => /\ _api_call_lock = t
                           /\ calls_in_last_minute[t] = Len(_api_call_times)
    /\ (\A t \in Threads : ~InCritical(t)) => _api_call_lock = NoThread
    /\ WindowCount <= _hard_limit

\* C2 witness: one thread sleeps at the hard limit holding the lock while
\* another thread has called the guard and waits for the lock.
C2_Witness ==
    \E t, u \in Threads :
        /\ t # u
        /\ pc[t] = "hard_sleep"
        /\ _api_call_lock = t
        /\ pc[u] = "acquire"
        /\ Len(_api_call_times) >= _hard_limit

(***************************************************************************)
(* Window filter and de-duplication: properties                            *)
(***************************************************************************)
\* The elements of s at the indexes in I, in the order of s
RECURSIVE PickFrom(_, _, _)
PickFrom(s, I, i) ==
    IF i > Len(s) THEN <<>>
    ELSE (IF i \in I THEN <<s[i]>> ELSE <<>>) \o PickFrom(s, I, i + 1)

\* The pair (external ID, internal booking ID) of a summary
IdPairOf(b) == <<b.e_id, b.booking_id>>

\* Indexes of the records that are the first of their ID pair
FirstOfPair(s) ==
    {i \in 1..Len(s) : \A j \in 1..(i - 1) : IdPairOf(s[j]) # IdPairOf(s[i])}

\* The de-duplication has run on fd.time_filtered and produced fd.unique
Deduplicated == fd.phase \in {"shown", "reshown", "listed"}

EmptyKey(b) == b.e_id = <<>> /\ b.booking_id = <<>>

\* C4 (as claimed): every record whose composite key is entirely empty is
\* retained by the de-duplication, none is dropped as a duplicate of another.
C4_EmptyKeyRecordsRetained ==
    Deduplicated =>
        Len(SelectSeq(fd.unique, EmptyKey))
            = Len(SelectSeq(fd.time_filtered, EmptyKey))

\* The raw createdDate of the summary, as an instant in JST
CreatedJST(b) ==
    (IF b.createdDate.aware THEN b.createdDate.t - b.createdDate.off
                            ELSE b.createdDate.t) + 9 * 60

\* C5: the last-N-days filter keeps exactly the summaries whose creation
\* instant, taken to JST and truncated to a date, is on or after the date of
\* the reference time in JST minus (N - 1) days; all others are excluded.
C5_LastNDaysKeepsExactlyWindow ==
    fd.phase \in {"shown", "reshown"} =>
        fd.time_filtered =
            SelectSeq(fd.parsed, LAMBDA b :
                /\ b.createdDate.kind = "ts"
                /\ CreatedJST(b) \div (24 * 60)
                     >= ((fd.utcnow + 9 * 60) \div (24 * 60)) - (fd.days - 1))

\* C5 witness: with a window of 2 days a record of 23:59 JST two days back
\* was excluded and a record of 23:59 JST of the day before was kept.
C5_Witness ==
    /\ fd.phase = "shown"
    /\ fd.days = 2
    /\ Len(fd.parsed) = 2
    /\ fd.parsed[1].createdDate = Timestamp(98 * MinutesPerDay + 14 * 60 + 59, FALSE, 0)
    /\ fd.parsed[2].createdDate = Timestamp(99 * MinutesPerDay + 14 * 60 + 59, TRUE, 0)
    /\ fd.time_filtered = <<fd.parsed[2]>>

\* C6: filtering and de-duplicating the output of the filter-and-dedupe step
\* again, at the same reference time, returns it unchanged.
C6_FilterAndDedupeIdempotent ==
    fd.phase = "reshown" => fd.again = fd.unique

\* C6 witness: the first pass dropped a record outside the window and a
\* duplicate, and the second pass has run on a non-empty output.
C6_Witness ==
    /\ fd.phase = "reshown"
    /\ Len(fd.parsed) = 3
    /\ Len(fd.time_filtered) = 2
    /\ Len(fd.unique) = 1
    /\ fd.again = fd.unique

(***************************************************************************)
(* Booking source attribution: properties                                  *)
(***************************************************************************)
\* attribute_booking has returned at least once on the Booking
Attributed == bk.phase = "attributed" /\ bk.calls >= 1

\* C7: whenever the secondary channel is Airbnb, Booking.com, Expedia or Jalan
\* the primary channel is OTA, in the returned pair and in the stored
\* attributes, after the first and after every further invocation.
C7_OTASecondaryImpliesOTAPrimary ==
    Attributed =>
        /\ bk.returned[2] \in OTAChannels => bk.returned[1] = STR_OTA
        /\ bk.booking_source_2 \in OTAChannels => bk.booking_source_1 = STR_OTA

\* C7 witness: a second invocation on a Booking classified Jalan
C7_Witness ==
    /\ Attributed
    /\ bk.calls = 2
    /\ bk.booking_source_2 = STR_Jalan
    /\ bk.booking_source_1 = STR_OTA

\* C8: a custom ID of exactly 10 characters whose first character is not "H"
\* is attributed (OTA, Booking.com), whatever the channel string.
C8_TenCharsNotHIsBookingCom ==
    (/\ Attributed
     /\ bk.custom_id # None
     /\ Len(bk.custom_id) = 10
     /\ bk.custom_id[1] # "H")
        => bk.returned = <<STR_OTA, STR_BookingCom>>

\* C8 witness: a 10-character ID starting with a lower-case h, with a channel
\* string that names the RoomBoss channel manager
C8_Witness ==
    /\ Attributed
    /\ bk.custom_id = Padded(<<"h">>, 10)
    /\ Contains(STR_roomboss_channel_manager, lower(StrOrEmpty(bk.booking_source)))
    /\ bk.returned = <<STR_OTA, STR_BookingCom>>

\* Two characters are the same letter up to case, or the same character
SameCharIgnoringCase(a, b) ==
    \/ a = b
    \/ \E k \in 1..26 :
          {a, b} = {UpperCaseLetters[k], LowerCaseLetters[k]}

\* The string is one of the staff codes up to the case of its letters
IsStaffCodeIgnoringCase(str) ==
    \E code \in StaffCodes :
        /\ Len(code) = Len(str)
        /\ \A i \in 1..Len(code) : SameCharIgnoringCase(code[i], str[i])

\* C9: a custom ID that is a staff code up to case is attributed
\* (HN Staff, the custom ID in its original casing), whatever the channel.
C9_StaffCodeIsHNStaff ==
    (Attributed /\ bk.custom_id # None /\ IsStaffCodeIgnoringCase(bk.custom_id))
        => bk.returned = <<STR_HNStaff, bk.custom_id>>

\* C9 witness: the mixed-case code "RyO"
C9_Witness ==
    /\ Attributed
    /\ bk.custom_id = <<"R", "y", "O">>
    /\ bk.returned = <<STR_HNStaff, <<"R", "y", "O">> >>

\* C10: for an empty or absent custom ID the invocation does not raise and
\* returns (Book & Pay, Book & Pay), the first time and every time after.
C10_EmptyIdIsBookAndPay ==
    (bk.phase # "off" /\ bk.custom_id \in {<<>>, None} /\ bk.calls >= 1) =>
        /\ ~bk.raised
        /\ bk.returned = <<STR_BookAndPay, STR_BookAndPay>>
        /\ bk.first = bk.returned
        /\ <<bk.booking_source_1, bk.booking_source_2>> = bk.returned

\* C10 witness: the second invocation on a Booking without customId whose
\* channel string names the RoomBoss channel manager
C10_Witness ==
    /\ bk.phase = "attributed"
    /\ bk.calls = 2
    /\ bk.custom_id = None
    /\ Contains(STR_roomboss_channel_manager, lower(StrOrEmpty(bk.booking_source)))
    /\ bk.returned = <<STR_BookAndPay, STR_BookAndPay>>

\* The rules of the attribution contract, in their listed order, as conditions
\* on the custom ID text and the channel text.
RuleAirbnb(id, channel) ==
    /\ Len(id) = 10
    /\ Prefix(id, 1) = <<"H">>
    /\ \E i \in 0..(Len(channel) - Len(STR_roomboss_channel_manager)) :
          \A j \in 1..Len(STR_roomboss_channel_manager) :
              SameCharIgnoringCase(channel[i + j], STR_roomboss_channel_manager[j])
RuleBookingCom(id) == Len(id) = 10 /\ Prefix(id, 1) # <<"H">>
RuleExpedia(id) ==
    \/ Len(id) = 8 /\ Prefix(id, 1) \in {<<"4">>, <<"7">>}
    \/ Len(id) = 9 /\ Prefix(id, 1) \in {<<"3">>, <<"2">>}
RuleJalan(id) ==
    \/ Len(id) = 8 /\ Prefix(id, 1) = <<"0">>
    \/ Len(id) >= 2 /\ Prefix(id, 2) \in {<<"6", "X">>, <<"6", "J">>}
RuleStaff(id) == IsStaffCodeIgnoringCase(id)

\* The rules that hold of an ID and a channel text, by position in the list
MatchingRules(id, channel) ==
    {r \in 1..5 :
        \/ r = 1 /\ RuleAirbnb(id, channel)
        \/ r = 2 /\ RuleBookingCom(id)
        \/ r = 3 /\ RuleExpedia(id)
        \/ r = 4 /\ RuleJalan(id)
        \/ r = 5 /\ RuleStaff(id)}

\* What each rule decides
RuleOutcome(r, id) ==
    CASE r = 1 -> <<STR_OTA, STR_Airbnb>>
      [] r = 2 -> <<STR_OTA, STR_BookingCom>>
      [] r = 3 -> <<STR_OTA, STR_Expedia>>
      [] r = 4 -> <<STR_OTA, STR_Jalan>>
      [] r = 5 -> <<STR_HNStaff, id>>

Minimum(S) == CHOOSE m \in S : \A x \in S : m <= x

\* An invocation has run on a Booking whose custom ID is a non-empty text
AttributedNonEmpty ==
    /\ bk.phase # "off"
    /\ bk.calls >= 1
    /\ bk.custom_id # None
    /\ Len(bk.custom_id) > 0

\* C11: for every non-empty custom ID that matches none of the Airbnb,
\* Booking.com, Expedia, Jalan or staff rules the invocation raises nothing
\* and returns (Unknown, Unknown).
C11_UnmatchedIdIsUnknown ==
    (/\ AttributedNonEmpty
     /\ MatchingRules(bk.custom_id, StrOrEmpty(bk.booking_source)) = {})
        => /\ ~bk.raised
           /\ bk.phase = "attributed"
           /\ bk.returned = <<STR_Unknown, STR_Unknown>>
           /\ <<bk.booking_source_1, bk.booking_source_2>> = bk.returned

\* C11 witness: a 10-character ID starting with "H" whose channel text does
\* not name the RoomBoss channel manager
C11_Witness ==
    /\ AttributedNonEmpty
    /\ bk.custom_id = Padded(<<"H">>, 10)
    /\ bk.booking_source = <<"B", "o", "o", "k", "i", "n", "g", ".", "c", "o", "m">>
    /\ bk.returned = <<STR_Unknown, STR_Unknown>>

\* C19: the rules are tried in their listed order and the first rule that
\* holds decides: the result is the outcome of the earliest matching rule,
\* also when a later rule holds as well (a 10-character ID starting "6X" or
\* "6J" is (OTA, Booking.com), not (OTA, Jalan)).
C19_FirstMatchingRuleDecides ==
    (/\ AttributedNonEmpty
     /\ MatchingRules(bk.custom_id, StrOrEmpty(bk.booking_source)) # {})
        => bk.returned =
             RuleOutcome(Minimum(MatchingRules(bk.custom_id,
                                               StrOrEmpty(bk.booking_source))),
                         bk.custom_id)

\* C19 witness: a 10-character ID starting "6J", which satisfies the
\* Booking.com rule and the Jalan rule
C19_Witness ==
    /\ AttributedNonEmpty
    /\ bk.custom_id = Padded(<<"6", "J">>, 10)
    /\ Cardinality(MatchingRules(bk.custom_id, StrOrEmpty(bk.booking_source))) > 1
    /\ bk.returned = <<STR_OTA, STR_BookingCom>>

\* The summarizer's label for a pair of the attributor: the secondary channel,
\* with a staff code written "Staff (code)"
SummaryLabel(pair) ==
    IF pair[1] = STR_HNStaff
    THEN <<"S", "t", "a", "f", "f", " ", "(">> \o pair[2] \o <<")">>
    ELSE pair[2]

\* Both classifications of the reservation have been computed
BothClassified ==
    /\ bk.phase = "attributed"
    /\ bk.calls >= 1
    /\ bk.summary_source # Unset

\* C12: the booking source the summarizer records is the attributor's result
\* for the same custom ID and raw channel string: the same secondary channel,
\* "Staff (code)" for (HN Staff, code), Book & Pay for Book & Pay, and
\* Unknown for an ID that matches no rule.
C12_SummarySourceIsAttribution ==
    BothClassified => bk.summary_source = SummaryLabel(bk.returned)

(***************************************************************************)
(* Rate limiter: order of waiting, pruning and recording                   *)
(***************************************************************************)
\* Thread t is past the hard-limit branch of its invocation and has not yet
\* recorded the call
PastHardLimitBranch(t) == pc[t] \in {"soft_sleep", "record"}

\* C17: when the pruned count is at or above the hard ceiling, the invocation
\* neither records the call nor returns before the oldest recorded timestamp
\* is at least 60 s old, and it prunes the list again, dropping that
\* timestamp, before it chooses the soft delay; an invocation reaches the
\* soft delay without waiting only with a count below the ceiling.
C17_HardLimitWaitsForOldestThenPrunes ==
    \A t \in Threads :
        PastHardLimitBranch(t) =>
            IF oldest_call[t] # NoCall
            THEN /\ current_time[t] - oldest_call[t] >= WindowTicks
                 /\ now - oldest_call[t] >= WindowTicks
                 /\ _api_call_times = Prune(_api_call_times, current_time[t])
                 /\ \A i \in 1..Len(_api_call_times) :
                        _api_call_times[i] > oldest_call[t]
                 /\ calls_in_last_minute[t] = Len(_api_call_times)
                 /\ ~HardLimitReached(calls_in_last_minute[t])
            ELSE calls_in_last_minute[t] < _hard_limit

\* C17 witness: an invocation that found the ceiling reached has waited and is
\* about to record its call, with calls left in the list after the second
\* prune
C17_Witness ==
    \E t \in Threads :
        /\ pc[t] = "record"
        /\ oldest_call[t] # NoCall
        /\ Len(_api_call_times) > 0
        /\ now - oldest_call[t] >= WindowTicks

\* Some thread leaves _smart_rate_limit in this step
Returns(t) == pc[t] = "record" /\ pc'[t] # "record"

\* C18: the timestamp of an invocation is appended after its hard wait and
\* its soft delay are over and carries the time at which the guard returns;
\* one timestamp is appended per invocation, and no step other than the
\* return of an invocation adds a timestamp (the others leave the list alone
\* or prune it).
C18_TimestampRecordedAfterDelays ==
    [][ /\ \A t \in Threads :
              Returns(t) =>
                  /\ _api_call_times' = Append(_api_call_times, now')
                  /\ now' >= wake_at[t]
                  /\ now' >= current_time[t]
        /\ (\A t \in Threads : ~Returns(t)) =>
              \/ _api_call_times' = _api_call_times
              \/ _api_call_times' = Prune(_api_call_times, now')
      ]_vars

\* C18 witness: a call recorded after a soft delay: the guard has returned,
\* and the newest timestamp is the current time, at least 0.5 s after the
\* one before it
C18_Witness ==
    \E t \in Threads :
        /\ pc[t] = "stats"
        /\ Len(_api_call_times) > 30
        /\ _api_call_times[Len(_api_call_times)] = now
        /\ _api_call_times[Len(_api_call_times)]
             - _api_call_times[Len(_api_call_times) - 1] >= 5

(***************************************************************************)
(* Booking summarizer: properties                                          *)
(***************************************************************************)
\* C13: summarization never fails on incomplete input: with any of the
\* optional fields absent, null or holding an unparseable date string, the
\* summary is produced without an exception, with defaults in place of the
\* missing values (zero, the empty string, the unparsed string), and a batch
\* that contains such a record is parsed to the end.
C13_SummarizationNeverFails ==
    /\ sm.phase = "summarized" =>
          /\ ~sm.raised
          /\ sm.raw.st["createdDate"] = "bad" =>
                 sm.summary.created_date = [kind |-> "unparseable"]
          /\ sm.raw.st["createdDate"] \in {"absent", "null"} =>
                 sm.summary.created_date = [kind |-> "empty"]
          /\ sm.raw.st["invoicePayments"] # "ok" =>
                 sm.summary.amount_invoiced_raw = 0
    /\ sm.phase = "batched" =>
          /\ ~sm.raised
          /\ Len(sm.parsed) = 2

\* No field outside the items holds a null that the summarizer dereferences
NoNullOutsideItems(raw) ==
    /\ raw.st["invoicePayments"] # "null"
    /\ raw.st["hotel"] # "null"
    /\ raw.st["serviceProvider"] # "null"

C20_AccommodationNightsIsDayDifference ==
    (/\ sm.phase = "summarized"
     /\ ~sm.raised
     /\ sm.raw.bookingType = "ACCOMMODATION"
     /\ ItemsTruthy(sm.raw)
     /\ sm.raw.st["checkIn"] = "ok"
     /\ sm.raw.st["checkOut"] = "ok")
        => /\ sm.summary.nights = sm.raw.last - sm.raw.first
           /\ (sm.raw.first = 0 /\ sm.raw.last = 4) => sm.summary.nights = 4

\* C20 witness: a check-out before the check-in, surfaced as negative nights
C20_Witness ==
    /\ sm.phase = "summarized"
    /\ ~sm.raised
    /\ sm.raw.bookingType = "ACCOMMODATION"
    /\ sm.raw.st["checkIn"] = "ok"
    /\ sm.raw.st["checkOut"] = "ok"
    /\ sm.raw.last < sm.raw.first
    /\ sm.summary.nights < 0

(***************************************************************************)
(* Upstream calls: rate guards and failures                                *)
(***************************************************************************)
\* C15: a rate guard that finds its budget used up delays the caller and the
\* call then proceeds; no call ends in an exception or an error result
\* because of the ceiling.  For call_api: every call returns the response of
\* the request.
C15_RateGuardDelaysNeverRaises ==
    (lb.phase = "ready" /\ lb.outcome # "none") => lb.outcome = "response"

\* The dates of the range, in ascending order
RangeDates ==
    [i \in 1..(IF dr.end_dt >= dr.start_dt
               THEN dr.end_dt - dr.start_dt + 1 ELSE 0) |-> dr.start_dt + i - 1]

\* The i-th requested date failed: its response carried no bookings
DateFailed(i) == dr.responses[i].kind # "bookings"

\* Every date of the range was requested once, in ascending order; every
\* failed date has its entry in errors, with the status code when the
\* response was an HTTP or network failure; success is false exactly when a
\* date failed.
FetchedEveryDate ==
    /\ dr.requested = RangeDates
    /\ Len(dr.responses) = Len(dr.requested)
    /\ \A i \in 1..Len(dr.requested) :
          DateFailed(i) =>
              \E j \in 1..Len(dr.result.errors) :
                  /\ dr.result.errors[j].date = dr.requested[i]
                  /\ ~dr.responses[i].ok =>
                         dr.result.errors[j].status_code
                             = dr.responses[i].status_code
    /\ Len(dr.result.errors)
          = Cardinality({i \in 1..Len(dr.requested) : DateFailed(i)})
    /\ (dr.result.success = FALSE)
          <=> (\E i \in 1..Len(dr.requested) : DateFailed(i))

C21_ServiceNightsNeverNegative ==
    (/\ sm.phase = "summarized"
     /\ ~sm.raised
     /\ sm.raw.bookingType = "SERVICE"
     /\ ItemsTruthy(sm.raw)
     /\ sm.raw.st["startDate"] = "ok"
     /\ sm.raw.st["endDate"] = "ok")
        => /\ sm.summary.nights >= 0
           /\ sm.summary.nights =
                 IF sm.raw.last = sm.raw.first THEN 1
                 ELSE IF sm.raw.last > sm.raw.first
                      THEN sm.raw.last - sm.raw.first
                      ELSE 0

\* The price an item contributes: its priceSell, or its priceRetail when it
\* has no priceSell
RECURSIVE SumSellOrRetail(_, _)
SumSellOrRetail(raw, n) ==
    LET
        \* priceRetail of the i-th item, which the loop of lines 444-446 never reads
        ItemPriceRetail(i) == i * 100 + 50
    IN
    IF n = 0 THEN 0
    ELSE SumSellOrRetail(raw, n - 1)
         + (IF n = 1 /\ raw.st["priceSell"] = "absent"
            THEN ItemPriceRetail(n)
            ELSE ItemPrice(n))

\* C22: the total sell price is the sum over all items of the item's
\* priceSell, an item without priceSell contributing its priceRetail.
C22_SellPriceFallsBackToRetail ==
    (/\ sm.phase = "summarized"
     /\ ~sm.raised
     /\ ItemsTruthy(sm.raw))
        => sm.summary.sell_price_raw = SumSellOrRetail(sm.raw, sm.raw.n_items)

\* The summaries of a list, as a set
Summaries(list) == {list[i] : i \in 1..Len(list)}

\* C23 as stated: for the 1-day period offered to the user ("Last 24 hours")
\* the cutoff is today in JST: a record with a readable createdDate is kept
\* exactly when its creation date in JST is not before today's date in JST.
C23_OneDayPeriodCutoffIsToday ==
    (wf.phase = "filtered" /\ wf.called = "Last 24 hours")
        => \A i \in 1..Len(wf.parsed) :
               LET c == wf.parsed[i].createdDate
               IN c.kind = "ts"
                    => (wf.parsed[i] \in Summaries(wf.filtered)
                          <=> DateOf(CreatedJST(wf.parsed[i]))
                                >= DateOf(wf.utcnow + JSTOffset))

\* C23 amended: _filter_created_last_n_days with a window of one day has the
\* cutoff at today in JST (a record is kept exactly when its JST creation date
\* is today or later), while the 1-day period offered to the user, "Last 24
\* hours", is a rolling window: a record is kept exactly when the wall-clock
\* reading of its createdDate, taken as UTC, is at most 24 hours before the
\* reference time.
C23_OneDayCutoffs ==
    /\ (wf.phase = "filtered" /\ wf.called = "1 day")
          => \A i \in 1..Len(wf.parsed) :
                 LET c == wf.parsed[i].createdDate
                 IN c.kind = "ts"
                      => (wf.parsed[i] \in Summaries(wf.filtered)
                            <=> DateOf(CreatedJST(wf.parsed[i]))
                                  >= DateOf(wf.utcnow + JSTOffset))
    /\ (wf.phase = "filtered" /\ wf.called = "Last 24 hours")
          => \A i \in 1..Len(wf.parsed) :
                 LET c == wf.parsed[i].createdDate
                 IN c.kind = "ts"
                      => (wf.parsed[i] \in Summaries(wf.filtered)
                            <=> wf.utcnow - c.t <= MinutesPerDay)

\* Witness of C23: at reference 2025-06-23T10:00 JST the "Last 24 hours"
\* period keeps the record of 2025-06-22T23:59 JST and drops the one of
\* 2025-06-22T09:59 JST.
C23_Witness ==
    /\ wf.phase = "filtered"
    /\ wf.called = "Last 24 hours"
    /\ wf.utcnow = 53 * MinutesPerDay + 60
    /\ \E i \in 1..Len(wf.parsed) :
          /\ wf.parsed[i].createdDate
                = Timestamp(52 * MinutesPerDay + 14 * 60 + 59, TRUE, 0)
          /\ wf.parsed[i] \in Summaries(wf.filtered)
    /\ \E i \in 1..Len(wf.parsed) :
          /\ wf.parsed[i].createdDate = Timestamp(52 * MinutesPerDay + 59, TRUE, 0)
          /\ wf.parsed[i] \notin Summaries(wf.filtered)

\* list is sub with elements left out: the elements of sub appear in list in
\* the same order (matched from position i of sub and j of list on).
RECURSIVE IsSubListFrom(_, _, _, _)
IsSubListFrom(sub, i, list, j) ==
    IF i > Len(sub) THEN TRUE
    ELSE IF j > Len(list) THEN FALSE
    ELSE IF sub[i] = list[j] THEN IsSubListFrom(sub, i + 1, list, j + 1)
    ELSE IsSubListFrom(sub, i, list, j + 1)

\* C30: every created-date window filter (today, last 24 hours, last N days,
\* custom range, month to date) returns an order-preserving sub-list of its
\* input, with no record added or altered, and no record whose createdDate is
\* missing or unparseable is in the output.
C30_FiltersReturnSubListOfParsedDates ==
    wf.phase = "filtered"
        => /\ IsSubListFrom(wf.filtered, 1, wf.parsed, 1)
           /\ \A i \in 1..Len(wf.filtered) :
                  wf.filtered[i].createdDate.kind = "ts"

\* Witness of C30: a filter dropped a record without a readable createdDate
\* and kept the record that followed it.
C30_Witness ==
    /\ wf.phase = "filtered"
    /\ Len(wf.parsed) = 2
    /\ wf.parsed[1].createdDate.kind \in {"missing", "invalid"}
    /\ wf.filtered = <<wf.parsed[2]>>

\* Every page fetched so far came as a list or under "bookings" or "data"
PagesCarryBookings ==
    \A i \in 1..Len(pg.payloads) :
        pg.payloads[i].shape \in {"list", "bookings", "data"}

\* The bookings of the first k fetched pages, in page order
RECURSIVE ConcatPages(_)
ConcatPages(k) ==
    IF k = 0 THEN <<>>
    ELSE ConcatPages(k - 1) \o BookingsOfPage(k, pg.payloads[k].n)

\* C24: get_all_bookings requests pages 1, 2, 3, ... in order; every page
\* before the last fetched one held at least 20 bookings; it has returned
\* exactly when the last fetched page held fewer than 20 bookings (an empty
\* page included), and until then it goes on to the next page; what it
\* accumulates and returns is the concatenation of the bookings of the
\* fetched pages in page order.
C24_PaginationStopsAtFirstShortPage ==
    (pg.phase \in {"loop", "returned"} /\ PagesCarryBookings)
        => LET k == Len(pg.requested)
           IN /\ \A i \in 1..k : pg.requested[i] = i
              /\ Len(pg.payloads) = k
              /\ \A i \in 1..(k - 1) : pg.payloads[i].n >= PageSize
              /\ pg.phase = "returned"
                    <=> (k >= 1 /\ pg.payloads[k].n < PageSize)
              /\ pg.phase = "loop" => pg.page = k + 1
              /\ pg.out = ConcatPages(k)

\* Witness of C24: two full pages and then a short, non-empty one.
C24_Witness ==
    /\ pg.phase = "returned"
    /\ pg.requested = <<1, 2, 3>>
    /\ PagesCarryBookings
    /\ pg.payloads[3].n = 1
    /\ Len(pg.out) >= 2 * PageSize + 1

\* C25: the recent-bookings fetch is a time-to-live memo keyed by its request
\* parameters: a call of fetch_recent_bookings without force_refresh, with the
\* parameters of the last successful fetch, less than 300 seconds after it
\* and with non-empty stored data returns the stored bookings and makes no
\* upstream request; a call with a changed parameter, 300 seconds or more
\* after the last successful fetch, or with force_refresh makes a new upstream
\* request (for parameters that select an upstream function).
C25_FetchIsTTLMemo ==
    [][ fetch_recent_bookings
          => LET request == fs'.call.request
                 same == fs.recent_bookings_last_filter_state
                            = filter_key(request)
                 fresh == /\ fs.recent_bookings_last_refresh # NoRefresh
                          /\ fs.clock - fs.recent_bookings_last_refresh
                                < RefreshSeconds
             IN /\ ( /\ ~fs'.call.force_refresh
                     /\ same /\ fresh
                     /\ fs.recent_bookings_data # 0 )
                      => /\ fs'.result.success
                         /\ fs'.result.bookings = fs.recent_bookings_data
                         /\ ~fs'.call.requested
                         /\ fs'.upstream = fs.upstream
                /\ ( /\ ValidRequest(request)
                     /\ (fs'.call.force_refresh \/ ~same \/ ~fresh) )
                      => /\ fs'.call.requested
                         /\ fs'.upstream = fs.upstream + 1 ]_vars

\* C28: a call of fetch_recent_bookings whose result reports a failure
\* (success = False, an exception included) leaves recent_bookings_data,
\* recent_bookings_last_refresh, recent_bookings_last_filter_state,
\* recent_bookings_initialized and the parsed-bookings cache as they were.
C28_FailedFetchKeepsSessionState ==
    [][ (fetch_recent_bookings /\ ~fs'.result.success)
          => /\ fs'.recent_bookings_data = fs.recent_bookings_data
             /\ fs'.recent_bookings_last_refresh
                   = fs.recent_bookings_last_refresh
             /\ fs'.recent_bookings_last_filter_state
                   = fs.recent_bookings_last_filter_state
             /\ fs'.recent_bookings_initialized
                   = fs.recent_bookings_initialized
             /\ fs'.recent_bookings_parsed_cache
                   = fs.recent_bookings_parsed_cache ]_vars

\* Witness of C28: an upstream request has failed while the session held
\* bookings, their parsed form and the key of an earlier fetch.
C28_Witness ==
    /\ fs.phase = "idle"
    /\ ~fs.result.success
    /\ fs.call.requested
    /\ fs.recent_bookings_data # 0
    /\ fs.recent_bookings_initialized
    /\ fs.recent_bookings_parsed_cache # {}
    /\ fs.recent_bookings_last_filter_state # filter_key(fs.call.request)

\* C27: every change of a filter selection, and every forced refresh, of the
\* recent-bookings section is followed by a reload of the bookings for the
\* new selection: the script run that the change triggers reloads, and the
\* data then held was loaded for the selection shown, also after a booking
\* was opened from the list, on either page.
C27_FilterChangeReloads ==
    [][ (change_filter \/ press_refresh)
          => /\ ui'.reloaded
             /\ ui'.loaded_key
                   = current_filter_key(ui'.selection[LocationOf(ui'.page)])
      ]_vars

\* C29: after any sequence of searches, clicks on a recent search and
\* clears, the recent-searches list holds at most 10 entries and no two
\* entries have the same white-space-stripped booking ID.
C29_RecentSearchesBoundedAndDistinct ==
    rs.phase = "open"
        => /\ Len(rs.recent_bookings) <= 10
           /\ \A i, j \in 1..Len(rs.recent_bookings) :
                  i # j => strip(rs.recent_bookings[i].id)
                              # strip(rs.recent_bookings[j].id)

\* Witness of C29: an eleventh booking ID was searched for with white space
\* around it, so that the oldest entry has left the full list.
C29_Witness ==
    /\ rs.phase = "open"
    /\ rs.fresh = 11
    /\ Len(rs.recent_bookings) = 10
    /\ rs.text = <<" ", IdToken(11), " ">>
    /\ rs.recent_bookings[1].id = <<IdToken(11)>>
    /\ <<IdToken(1)>> \notin existing_ids(rs.recent_bookings)

\* The longest progressive delay of lines 55-69: 2.0 + (49 - 45) * 0.5 seconds
LongestSoftDelay == 20 + (49 - 45) * 5

\* C26: every invocation of the rate-limit guard returns.  The wait of a
\* caller is bounded: the hard wait ends when the oldest recorded timestamp
\* has expired (61 seconds after it) and is followed by at most one
\* progressive delay of at most 4 seconds; and under a fair scheduler every
\* thread that waits for the lock acquires it, records its timestamp and
\* returns from the guard.
C26_GuardEventuallyReturns ==
    /\ [](\A t \in Threads :
            /\ pc[t] = "hard_sleep"
                 => /\ _api_call_lock = t
                    /\ oldest_call[t] # NoCall
                    /\ wake_at[t] = oldest_call[t] + ExpireTicks
                    /\ wake_at[t] - current_time[t] <= ExpireTicks
            /\ pc[t] = "soft_sleep"
                 => /\ _api_call_lock = t
                    /\ wake_at[t] - current_time[t] <= LongestSoftDelay)
    /\ \A t \in Threads : (pc[t] = "acquire") ~> (pc[t] = "stats")

\* Witness of C26: one thread sleeps at the hard limit inside the lock while
\* the other waits for the lock.
C26_Witness ==
    \E t, u \in Threads :
        /\ t # u
        /\ pc[t] = "hard_sleep"
        /\ _api_call_lock = t
        /\ pc[u] = "acquire"

====
